---------------------------- MODULE Spec2Model ----------------------------
(***************************************************************************)
(* A model of the dentry-monitor agent (rophy/mem-psi-test):               *)
(*   - buildPath, the userspace path reconstruction of the trace consumer  *)
(*   - TSVWriter, the rotating trace-file writer                           *)
(*   - parsePodFromCgroupPath / shortenUID of the cgroup resolver          *)
(*   - Resolver.refresh / Resolver.Resolve, the snapshot replacement       *)
(* Strings are sequences of one-character strings, so that scanning,       *)
(* splitting, trimming and joining are computed as the code computes them. *)
(***************************************************************************)
EXTENDS Integers, Sequences, FiniteSets, TLC

VARIABLES
    rawEvt,      \* the rawTraceEvent handed to buildPath: [Depth, Names]
    builtPath,   \* the string buildPath returned
    pathDone,    \* TRUE once buildPath has run on rawEvt
    fs,          \* the trace directory: [dir: name -> inode (0 = absent), inodes]
    w,           \* the TSVWriter: maxSize, maxFiles, file, buf, curSize
    wlog,        \* history of the writer: calls made, rotations, the last call
    cgIn,        \* a pod UID and a container id, as they appear in cgroup paths
    cgOut,       \* what parsePodFromCgroupPath returned for each path form
    maps,        \* the Go maps allocated by the resolver, by address
    cache,       \* Resolver.cache: the address of the live map
    refresher,   \* the refresh in progress: pc, newCache, entries left to scan
    mu,          \* Resolver.mu: [readers, writer]
    callers,     \* the Resolve calls in progress: pc, cgroupID, map read, answer
    snapshots,   \* history: the maps whose scan completed, and each map as published
    statsMap,    \* dentry_stats_map: cgroup id -> [present, alloc, positive, negative]
    reclaimCount,\* reclaim_count[0]
    cpu,         \* the probe program running on each CPU: prog, pc, cgid, inode, stats
    probeHits,   \* history: the number of probe hits so far
    poller,      \* Collector.Poll in progress: pc, newStats
    cstats,      \* Collector.stats: the snapshot of the last poll
    scrape,      \* Collector.Collect in progress: pc, snapshot, ids left, metrics sent
    links,       \* the probe programs attached to their kernel symbols
    configMap,   \* trace_config_map[0].enabled
    ring,        \* trace_events: the records reserved and not yet consumed
    tracer,      \* history of the ring: reservations, failures, records read
    filt,        \* Consumer.Start's pattern filter: path, patterns, pc, events written
    config,      \* Consumer.config.Enabled
    setter,      \* the SetConfig call in progress, and the updates applied
    boot,        \* main's startup: pc, exit status, the probes whose attachment failed
    mainPc,      \* main's position in its shutdown sequence
    stopCh,      \* stopCh is closed
    rStopCh,     \* Resolver.stopCh is closed
    workers,     \* the position of each background goroutine
    rdClosed,    \* the ring buffer reader is closed
    tsv,         \* the TSVWriter: closed, and the calls made on it after Close
    enrich,      \* a cgroup path, the PodInfo cached for it, the event enriched
    http,        \* the last request served by the tracing handlers and its answer
    walk,        \* a d_alloc hit, the dentry chain it walks, its event and the path built
    wmu,         \* TSVWriter.mu and the places of the WriteEvent and Flush calls under way
    fan          \* the consumer's circular buffer, its subscribers and their channels

pathVars   == <<rawEvt, builtPath, pathDone>>
writerVars == <<fs, w, wlog>>
cgVars     == <<cgIn, cgOut>>
resVars    == <<maps, cache, refresher, mu, callers, snapshots>>
kernVars   == <<statsMap, reclaimCount, cpu, probeHits>>
colVars    == <<poller, cstats, scrape>>
ringVars   == <<links, configMap, ring, tracer>>
filtVars   == <<filt>>
cfgVars    == <<config, setter>>
bootVars   == <<boot>>
shutVars   == <<mainPc, stopCh, rStopCh, workers, rdClosed, tsv>>
enrichVars == <<enrich>>
httpVars   == <<http>>
walkVars   == <<walk>>
lockVars   == <<wmu>>

fanVars    == <<fan>>
vars == <<pathVars, writerVars, cgVars, resVars, kernVars, colVars, ringVars,
         filtVars, cfgVars, bootVars, shutVars, enrichVars, httpVars,
         walkVars, lockVars, fanVars>>

\* What the actions of one component leave alone.
notPath     == <<writerVars, cgVars, resVars, kernVars, colVars, ringVars,
                 filtVars, cfgVars, bootVars, shutVars, enrichVars, httpVars,
                 walkVars, lockVars,
                 fanVars>>
notWriter   == <<pathVars, cgVars, resVars, kernVars, colVars, ringVars,
                 filtVars, cfgVars, bootVars, shutVars, enrichVars, httpVars,
                 walkVars, lockVars,
                 fanVars>>
notCg       == <<pathVars, writerVars, resVars, kernVars, colVars, ringVars,
                 filtVars, cfgVars, bootVars, shutVars, enrichVars, httpVars,
                 walkVars, lockVars,
                 fanVars>>
notResolver == <<pathVars, writerVars, cgVars, kernVars, colVars, ringVars,
                 filtVars, cfgVars, bootVars, shutVars, enrichVars, httpVars,
                 walkVars, lockVars,
                 fanVars>>
notCounters == <<pathVars, writerVars, cgVars, refresher, mu, callers,
                 snapshots, links, configMap, ring, tracer, filtVars,
                 cfgVars, bootVars, shutVars, enrichVars, httpVars, walkVars,
                 lockVars,
                 fanVars>>
notRing     == <<pathVars, writerVars, cgVars, resVars, colVars, filtVars,
                 cfgVars, bootVars, shutVars, enrichVars, httpVars, walkVars,
                 lockVars,
                 fanVars>>
notFilter   == <<pathVars, writerVars, cgVars, resVars, kernVars, colVars,
                 ringVars, cfgVars, bootVars, shutVars, enrichVars, httpVars,
                 walkVars, lockVars,
                 fanVars>>
notConfig   == <<pathVars, writerVars, cgVars, resVars, kernVars, colVars,
                 filtVars, links, ring, tracer, bootVars, shutVars,
                 enrichVars, httpVars, walkVars, lockVars,
                 fanVars>>
notBoot     == <<pathVars, writerVars, cgVars, resVars, colVars, filtVars,
                 config, setter, shutVars, enrichVars, httpVars, walkVars,
                 lockVars,
                 fanVars>>
notShutdown == <<pathVars, writerVars, cgVars, resVars, kernVars, colVars,
                 ringVars, filtVars, cfgVars, bootVars, enrichVars, httpVars,
                 walkVars, lockVars,
                 fanVars>>
notEnrich   == <<pathVars, writerVars, cgVars, resVars, kernVars, colVars,
                 ringVars, filtVars, cfgVars, bootVars, shutVars, httpVars,
                 walkVars, lockVars,
                 fanVars>>
notHttp     == <<pathVars, writerVars, cgVars, resVars, kernVars, colVars,
                 filtVars, links, ring, tracer, setter, bootVars, shutVars,
                 enrichVars, walkVars, lockVars,
                 fanVars>>
notWalk     == <<pathVars, writerVars, cgVars, resVars, kernVars, colVars,
                 ringVars, filtVars, cfgVars, bootVars, shutVars, enrichVars,
                 httpVars, lockVars,
                 fanVars>>
notFan      == <<pathVars, writerVars, cgVars, resVars, kernVars, colVars,
                 ringVars, filtVars, cfgVars, bootVars, shutVars, enrichVars,
                 httpVars, walkVars, lockVars>>
notLock     == <<pathVars, cgVars, resVars, kernVars, colVars, ringVars,
                 filtVars, cfgVars, bootVars, shutVars, enrichVars, httpVars,
                 walkVars,
                 fanVars>>

-----------------------------------------------------------------------------
(* Characters and string helpers (Go's strings and bytes packages).        *)

NUL == "NUL"
TAB == "TAB"
LF  == "LF"

\* s[from..] of a Go string, with a 0-based start index.
StrFrom(s, from) == SubSeq(s, from + 1, Len(s))

\* s[:to] of a Go string, with a 0-based exclusive end index.
StrTo(s, to) == SubSeq(s, 1, to)

\* strings.HasPrefix
HasPrefix(s, p) == Len(s) >= Len(p) /\ SubSeq(s, 1, Len(p)) = p

\* strings.HasSuffix
HasSuffix(s, p) == Len(s) >= Len(p) /\ SubSeq(s, Len(s) - Len(p) + 1, Len(s)) = p

\* strings.TrimPrefix
TrimPrefix(s, p) == IF HasPrefix(s, p) THEN StrFrom(s, Len(p)) ELSE s

\* strings.TrimSuffix
TrimSuffix(s, p) == IF HasSuffix(s, p) THEN StrTo(s, Len(s) - Len(p)) ELSE s

\* strings.Index: the 0-based index of the first occurrence of sub in s, or -1.
Index(s, sub) ==
    LET hits == {i \in 0..(Len(s) - Len(sub)) : SubSeq(s, i + 1, i + Len(sub)) = sub}
    IN  IF hits = {} THEN -1 ELSE CHOOSE i \in hits : \A j \in hits : i <= j

\* strings.Contains
Contains(s, sub) == Index(s, sub) >= 0

\* bytes.IndexByte: the 0-based index of the first byte equal to b, or -1.
IndexByte(slot, b) ==
    LET hits == {i \in 0..(Len(slot) - 1) : slot[i + 1] = b}
    IN  IF hits = {} THEN -1 ELSE CHOOSE i \in hits : \A j \in hits : i <= j

\* strings.Join
RECURSIVE Join(_, _)
Join(parts, sep) ==
    IF Len(parts) = 0 THEN <<>>
    ELSE IF Len(parts) = 1 THEN parts[1]
    ELSE parts[1] \o sep \o Join(Tail(parts), sep)

\* strings.Split on a one-character separator.
RECURSIVE Split(_, _)
Split(s, sep) ==
    LET i == IndexByte(s, sep)
    IN  IF i < 0 THEN <<s>>
        ELSE <<StrTo(s, i)>> \o Split(StrFrom(s, i + 1), sep)

\* strings.ReplaceAll for one-character old and new.
ReplaceAll(s, old, new) == [i \in 1..Len(s) |-> IF s[i] = old THEN new ELSE s[i]]

-----------------------------------------------------------------------------
(* buildPath: tracing/consumer.go.                                         *)

MAX_PATH_DEPTH == 8

\* A uint32 is held as its two 16-bit halves [hi, lo], its value hi * 2^16 + lo.
\* depthRootFlag 0x80000000 is bit 15 of the high half.
HalfWord        == 65536
depthRootFlagHi == 32768

\* The uint32 with component count c in its low 31 bits and bit 31 set iff root.
DepthWord(c, root) ==
    [hi |-> (c \div HalfWord) + (IF root THEN depthRootFlagHi ELSE 0), lo |-> c % HalfWord]

\* Bounds of the raw events explored.
NameLen       == 2   \* bytes per names[] slot explored (MAX_NAME_LEN is 64)
VarSlots      == 3   \* slots names[0..VarSlots-1] take every content
MaxDepthField == 9   \* largest component count in the depth field explored

Bytes == {NUL, "/", "a", "b"}
Slots == [1..NameLen -> Bytes]
FillSlot == [i \in 1..NameLen |-> IF i = 1 THEN "a" ELSE NUL]

\* The names arrays explored: every content in the first VarSlots slots.
EventNames ==
    {[i \in 0..(MAX_PATH_DEPTH - 1) |-> IF i < VarSlots THEN low[i] ELSE FillSlot] :
        low \in [0..(VarSlots - 1) -> Slots]}

\* evt.Depth&depthRootFlag != 0
reachedRoot(evt) == (evt.Depth.hi \div depthRootFlagHi) % 2 = 1

\* int(evt.Depth &^ depthRootFlag), clamped to 8
clampedDepth(evt) ==
    LET depth == (evt.Depth.hi % depthRootFlagHi) * HalfWord + evt.Depth.lo
    IN  IF depth > MAX_PATH_DEPTH THEN MAX_PATH_DEPTH ELSE depth

\* The loop of buildPath from index i down to 0, appending to parts.
RECURSIVE collectParts(_, _, _)
collectParts(evt, i, parts) ==
    IF i < 0 THEN parts
    ELSE LET slot == evt.Names[i]
             idx  == IndexByte(slot, NUL)
             name == StrTo(slot, idx)
         IN  IF idx > 0 /\ name # <<"/">>
             THEN collectParts(evt, i - 1, Append(parts, name))
             ELSE collectParts(evt, i - 1, parts)

buildPath(evt) ==
    LET parts == collectParts(evt, clampedDepth(evt) - 1, <<>>)
    IN  IF Len(parts) = 0 THEN <<"/">>
        ELSE IF reachedRoot(evt) THEN <<"/">> \o Join(parts, <<"/">>)
        ELSE Join(parts, <<"/">>)

----
(* Claims about buildPath. *)

\* C1: for every raw event, the path buildPath returns begins with "/" if and
\* only if the root-reached flag (bit 31 of depth) is set.
C1_LeadingSlashIffRootFlag ==
    pathDone =>
        ((Len(builtPath) > 0 /\ builtPath[1] = "/") <=> reachedRoot(rawEvt))

\* A slot cut at its first NUL byte; a slot with no NUL byte is taken whole.
CutAtNul(slot) ==
    LET idx == IndexByte(slot, NUL) IN IF idx < 0 THEN slot ELSE StrTo(slot, idx)

\* The components index i down to 0, cut at NUL, empty and "/" ones skipped.
RECURSIVE KeptComponents(_, _)
KeptComponents(evt, i) ==
    IF i < 0 THEN <<>>
    ELSE LET name == CutAtNul(evt.Names[i])
         IN  (IF name = <<>> \/ name = <<"/">> THEN <<>> ELSE <<name>>)
                 \o KeptComponents(evt, i - 1)

\* C2: buildPath returns the components in reverse index order (depth-1 down
\* to 0, flag stripped, depth clamped to 8), each cut at its first NUL byte (a
\* slot with no NUL byte being a non-empty component), empty and "/" components
\* skipped, joined by "/", with a leading "/" exactly when the root flag is set.
C2_ReversedJoinedComponents ==
    pathDone =>
        builtPath = (IF reachedRoot(rawEvt) THEN <<"/">> ELSE <<>>)
                        \o Join(KeptComponents(rawEvt, clampedDepth(rawEvt) - 1), <<"/">>)

\* C3: when the component count is 0 or every component is skipped, buildPath
\* returns "/" with the root flag set and the empty string with it clear.
C3_NoComponents ==
    (pathDone /\ collectParts(rawEvt, clampedDepth(rawEvt) - 1, <<>>) = <<>>) =>
        builtPath = (IF reachedRoot(rawEvt) THEN <<"/">> ELSE <<>>)

PathIdle == rawEvt = 0 /\ builtPath = <<>> /\ pathDone = TRUE

PathInit ==
    /\ rawEvt \in {[Depth |-> DepthWord(c, f), Names |-> n] :
                      c \in 0..MaxDepthField, f \in BOOLEAN, n \in EventNames}
    /\ builtPath = <<>>
    /\ pathDone = FALSE

\* The consumer reconstructs the path of the decoded event.
BuildPath ==
    /\ ~pathDone
    /\ builtPath' = buildPath(rawEvt)
    /\ pathDone' = TRUE
    /\ UNCHANGED <<rawEvt, notPath>>

-----------------------------------------------------------------------------
(* TSVWriter: the rotating trace-file writer (tracing/tsv.go, kept in      *)
(* src/dentry-monitor/README.md lines 70-226).                             *)

tsvHeader ==
    <<"t", "i", "m", "e", "s", "t", "a", "m", "p", TAB, "p", "o", "d", TAB,
      "c", "o", "n", "t", "a", "i", "n", "e", "r", TAB,
      "c", "g", "r", "o", "u", "p", "_", "i", "d", TAB,
      "o", "p", "e", "r", "a", "t", "i", "o", "n", TAB,
      "p", "a", "t", "h", TAB, "f", "s", "t", "y", "p", "e", LF>>
HeaderLen  == Len(tsvHeader)
tsvBufSize == 65536

\* Bounds of the writer runs explored.
MaxFilesBound == 3    \* max_files ranges over 0..MaxFilesBound
SmallSlack    == 10   \* a threshold of HeaderLen + SmallSlack bytes
LargeSlack    == 40   \* a threshold of HeaderLen + LargeSlack bytes
MaxWrites     == 6    \* WriteEvent calls per run
MaxFaults     == 1    \* injected filesystem failures per run
MaxFaultyWrites == 4  \* WriteEvent calls per run on the failing filesystem

\* Names in the trace directory: -1 is traces.tsv, n >= 0 is traces.tsv.<n>.
activePath     == -1
rotatedPath(n) == n
DirNames       == {activePath} \cup 0..MaxFilesBound

MaxFilesChoices == 0..MaxFilesBound
MaxSizeChoices  == {0, HeaderLen + SmallSlack, HeaderLen + LargeSlack}

\* What a file holds: its bytes, and how many header and record lines.
EmptyFile == [size |-> 0, hdrs |-> 0, recs |-> 0]
\* A bufio.Writer: n buffered bytes (hdrs/recs lines of them), err its sticky error.
EmptyBuf  == [n |-> 0, hdrs |-> 0, recs |-> 0, err |-> FALSE]

\* The places of a rotation and of a flush where the filesystem may fail.
FaultPoints ==
    {<<k, 0>> : k \in {"flush", "close", "remove", "open", "stat"}}
        \cup {<<"rename", i>> : i \in {activePath} \cup 1..(MaxFilesBound - 1)}

Min(a, b) == IF a < b THEN a ELSE b

----
(* The filesystem calls the writer makes. *)

Linked(fsys, ino) == \E nm \in DirNames : fsys.dir[nm] = ino

\* Drop the directory entry nm; its inode is freed.
Unlink(fsys, nm) ==
    IF fsys.dir[nm] = 0 THEN fsys
    ELSE [dir    |-> [fsys.dir EXCEPT ![nm] = 0],
          inodes |-> [fsys.inodes EXCEPT ![fsys.dir[nm]] = EmptyFile]]

\* os.Remove: fails (and changes nothing) when the name does not exist.
osRemove(fsys, nm, fail) == IF fail THEN fsys ELSE Unlink(fsys, nm)

\* os.Rename: fails when old does not exist; otherwise replaces new.
osRename(fsys, old, new, fail) ==
    IF fail \/ fsys.dir[old] = 0 THEN fsys
    ELSE LET f1 == Unlink(fsys, new)
         IN  [f1 EXCEPT !.dir = [f1.dir EXCEPT ![new] = fsys.dir[old], ![old] = 0]]

\* os.OpenFile(path, O_CREATE|O_WRONLY|O_APPEND): the inode of nm, created if absent.
osOpenFile(fsys, nm) ==
    IF fsys.dir[nm] # 0 THEN [fs |-> fsys, ino |-> fsys.dir[nm]]
    ELSE LET id == Len(fsys.inodes) + 1
         IN  [fs  |-> [dir    |-> [fsys.dir EXCEPT ![nm] = id],
                       inodes |-> Append(fsys.inodes, EmptyFile)],
              ino |-> id]

\* write(2) of the buffered bytes b to inode ino (lost if the inode is unlinked).
fileWrite(fsys, ino, b) ==
    IF ~Linked(fsys, ino) THEN fsys
    ELSE [fsys EXCEPT !.inodes[ino] =
            [size |-> @.size + b.n, hdrs |-> @.hdrs + b.hdrs, recs |-> @.recs + b.recs]]

----
(* bufio.Writer over w.file.  W is the pair [fs, w]. *)

\* bufio.Writer.Flush: a failed write leaves the sticky error set.
bufFlush(W, fail) ==
    LET b == W.w.buf
    IN  IF b.err THEN [W |-> W, err |-> TRUE]
        ELSE IF b.n = 0 THEN [W |-> W, err |-> FALSE]
        ELSE IF fail \/ ~W.w.fileOpen
             THEN [W |-> [W EXCEPT !.w.buf.err = TRUE], err |-> TRUE]
        ELSE [W   |-> [W EXCEPT !.fs = fileWrite(W.fs, W.w.file, b), !.w.buf = EmptyBuf],
              err |-> FALSE]

\* bufio.Writer.WriteString of len bytes that make up hdrs header and recs
\* record lines; nn counts the bytes accepted so far.
RECURSIVE bufWriteString(_, _, _, _, _, _)
bufWriteString(W, len, hdrs, recs, nn, fail) ==
    LET b     == W.w.buf
        avail == tsvBufSize - b.n
    IN  IF b.err THEN [W |-> W, n |-> nn, err |-> TRUE]
        ELSE IF len > avail
             THEN LET filled == [W EXCEPT !.w.buf.n = tsvBufSize]
                  IN  bufWriteString(bufFlush(filled, fail).W, len - avail, hdrs, recs,
                                     nn + avail, fail)
        ELSE [W   |-> [W EXCEPT !.w.buf = [n    |-> b.n + len,
                                            hdrs |-> b.hdrs + hdrs,
                                            recs |-> b.recs + recs,
                                            err  |-> FALSE]],
              n   |-> nn + len,
              err |-> FALSE]

----
(* The writer's methods. *)

\* A variant of openFile that never writes the header line.
openFileNoHeader(W, failOpen, failStat) ==
    IF failOpen THEN [W |-> W, err |-> TRUE]
    ELSE LET o == osOpenFile(W.fs, activePath)
         IN  IF failStat THEN [W |-> [W EXCEPT !.fs = o.fs], err |-> TRUE]
             ELSE [W   |-> [fs |-> o.fs,
                            w  |-> [W.w EXCEPT !.file = o.ino, !.fileOpen = TRUE,
                                               !.curSize = o.fs.inodes[o.ino].size,
                                               !.buf = EmptyBuf]],
                   err |-> FALSE]

\* openFile: open or create traces.tsv, take its size as curSize, start a new
\* buffer, and write the header when the file is empty.
openFile(W, failOpen, failStat) ==
    IF failOpen THEN [W |-> W, err |-> TRUE]
    ELSE LET o == osOpenFile(W.fs, activePath)
         IN  IF failStat THEN [W |-> [W EXCEPT !.fs = o.fs], err |-> TRUE]
             ELSE LET size == o.fs.inodes[o.ino].size
                      W1   == [fs |-> o.fs,
                               w  |-> [W.w EXCEPT !.file = o.ino, !.fileOpen = TRUE,
                                                  !.curSize = size, !.buf = EmptyBuf]]
                  IN  IF size = 0
                      THEN LET h == bufWriteString(W1, HeaderLen, 1, 0, 0, FALSE)
                           IN  [W   |-> [h.W EXCEPT !.w.curSize = @ + h.n],
                                err |-> h.err]
                      ELSE [W |-> W1, err |-> FALSE]

\* The loop of rotate: rename traces.tsv.i to traces.tsv.(i+1) for i down to 1.
RECURSIVE shiftRotated(_, _, _)
shiftRotated(fsys, i, F) ==
    IF i < 1 THEN fsys
    ELSE shiftRotated(osRename(fsys, rotatedPath(i), rotatedPath(i + 1),
                               <<"rename", i>> \in F),
                      i - 1, F)

\* A variant of rotate without the loop that shifts the rotated files.
rotateNoShift(W, F) ==
    LET f1 == bufFlush(W, <<"flush", 0>> \in F)
    IN  IF f1.err THEN [W |-> f1.W, err |-> TRUE]
        ELSE LET closeErr == <<"close", 0>> \in F \/ ~f1.W.w.fileOpen
                 W2  == [f1.W EXCEPT !.w.fileOpen = FALSE]
             IN  IF closeErr THEN [W |-> W2, err |-> TRUE]
                 ELSE LET fsA == osRemove(W2.fs, rotatedPath(W2.w.maxFiles),
                                          <<"remove", 0>> \in F)
                          fsC == osRename(fsA, activePath, rotatedPath(1),
                                          <<"rename", activePath>> \in F)
                      IN  openFile([W2 EXCEPT !.fs = fsC],
                                   <<"open", 0>> \in F, <<"stat", 0>> \in F)

\* rotate, with F the set of its steps at which the filesystem fails.
rotate(W, F) ==
    LET f1 == bufFlush(W, <<"flush", 0>> \in F)
    IN  IF f1.err THEN [W |-> f1.W, err |-> TRUE]
        ELSE LET closeErr == <<"close", 0>> \in F \/ ~f1.W.w.fileOpen
                 \* the descriptor is released also when Close reports an error
                 W2  == [f1.W EXCEPT !.w.fileOpen = FALSE]
             IN  IF closeErr THEN [W |-> W2, err |-> TRUE]
                 ELSE LET fsA == osRemove(W2.fs, rotatedPath(W2.w.maxFiles),
                                          <<"remove", 0>> \in F)
                          fsB == shiftRotated(fsA, W2.w.maxFiles - 1, F)
                          fsC == osRename(fsB, activePath, rotatedPath(1),
                                          <<"rename", activePath>> \in F)
                      IN  openFile([W2 EXCEPT !.fs = fsC],
                                   <<"open", 0>> \in F, <<"stat", 0>> \in F)

----
(* The record line. *)

\* fmt's %d of a non-negative integer.
RECURSIVE Digits(_)
Digits(n) ==
    LET d == <<"0", "1", "2", "3", "4", "5", "6", "7", "8", "9">>[(n % 10) + 1]
    IN  IF n < 10 THEN <<d>> ELSE Append(Digits(n \div 10), d)

\* Timestamp.Format(time.RFC3339Nano) of the instant t: digits and punctuation.
FormatTime(t) == <<"T">> \o Digits(t) \o <<"Z">>

\* fmt.Sprintf("%s\t%s\t%s\t%d\t%s\t%s\t%s\n", ...)
FormatLine(evt) ==
    FormatTime(evt.Timestamp) \o <<TAB>> \o evt.Pod \o <<TAB>> \o evt.Container
        \o <<TAB>> \o Digits(evt.CgroupID) \o <<TAB>> \o evt.Operation
        \o <<TAB>> \o evt.Path \o <<TAB>> \o evt.Fstype \o <<LF>>

\* The enriched events handed to the writer in the runs explored.
WriterEvents(t) ==
    {[Timestamp |-> t, Pod |-> <<>>, Container |-> <<>>, CgroupID |-> 1,
      Operation |-> <<"a", "l", "l", "o", "c">>, Path |-> <<"a">>, Fstype |-> <<>>],
     [Timestamp |-> t, Pod |-> <<"p">>, Container |-> <<"c">>, CgroupID |-> 2,
      Operation |-> <<"a", "l", "l", "o", "c">>, Path |-> <<"a", TAB, "b">>,
      Fstype |-> <<"x">>]}

----
(* The writer as a state machine. *)

World == [fs |-> fs, w |-> w]

\* The trace directories a run starts from: empty, or holding the traces.tsv
\* an earlier run of the agent left behind.
StartDirs ==
    {[dir |-> [nm \in DirNames |-> 0], inodes |-> <<>>],
     [dir |-> [nm \in DirNames |-> IF nm = activePath THEN 1 ELSE 0],
      inodes |-> <<[size |-> HeaderLen + SmallSlack, hdrs |-> 1, recs |-> 1]>>]}

\* NewTSVWriter(dir, maxSize, maxFiles): the writer after openFile succeeded.
NewTSVWriter(dir0, maxSize, maxFiles) ==
    openFile([fs |-> dir0,
              w  |-> [maxSize |-> maxSize, maxFiles |-> maxFiles, file |-> 0,
                      fileOpen |-> FALSE, buf |-> EmptyBuf, curSize |-> 0]],
             FALSE, FALSE).W

WriterInit ==
    \E dir0 \in StartDirs, maxSize \in MaxSizeChoices, maxFiles \in MaxFilesChoices :
        LET W0 == NewTSVWriter(dir0, maxSize, maxFiles)
        IN  /\ fs = W0.fs
            /\ w = W0.w
            /\ wlog = [writes |-> 0, rotations |-> 0, faults |-> 0,
                       startEmpty |-> dir0.inodes = <<>>,
                       op |-> "new", err |-> FALSE, rotated |-> FALSE,
                       rotFault |-> FALSE, afterFault |-> FALSE, line |-> <<>>]

\* WriteEvent(evt) under the writer's mutex, with the filesystem failing at F.
WriteEvent(evt, F) ==
    /\ wlog.writes < MaxWrites
    /\ LET line == FormatLine(evt)
           r    == bufWriteString(World, Len(line), 0, 1, 0, <<"flush", 0>> \in F)
           W1   == [r.W EXCEPT !.w.curSize = @ + r.n]
           rot  == ~r.err /\ W1.w.curSize >= W1.w.maxSize
           rr   == rotate(W1, F)
           W2   == IF r.err THEN r.W ELSE IF rot THEN rr.W ELSE W1
       IN  /\ fs' = W2.fs
           /\ w' = W2.w
           /\ wlog' = [wlog EXCEPT !.writes = @ + 1,
                                   !.rotations = IF rot THEN @ + 1 ELSE @,
                                   !.faults = @ + Cardinality(F),
                                   !.op = "WriteEvent", !.err = r.err,
                                   !.rotated = rot,
                                   !.rotFault = @ \/ (rot /\ F # {}),
                                   !.afterFault = wlog.rotFault,
                                   !.line = line]

\* Flush() under the writer's mutex (the once-a-second flusher).
Flush(F) ==
    /\ LET r == bufFlush(World, <<"flush", 0>> \in F)
       IN  /\ fs' = r.W.fs
           /\ w' = r.W.w
           /\ wlog' = [wlog EXCEPT !.faults = @ + Cardinality(F),
                                   !.op = "Flush", !.err = r.err,
                                   !.rotated = FALSE, !.afterFault = wlog.rotFault]

WriterIdle == fs = 0 /\ w = 0 /\ wlog = 0

----
(* Claims about the writer. *)

\* The numbers n >= 1 for which traces.tsv.<n> exists.
Predecessors == {n \in 1..MaxFilesBound : fs.dir[rotatedPath(n)] # 0}

\* C4: from an empty directory, after any WriteEvent calls and for every
\* max_files, the directory holds traces.tsv and predecessors numbered 1..K
\* without gaps, with 0 <= K <= max_files.
C4_ContiguousPredecessors ==
    wlog.startEmpty =>
        /\ fs.dir[activePath] # 0
        /\ \E K \in 0..w.maxFiles : Predecessors = 1..K

\* C5: from an empty directory, after K rotations the number of predecessor
\* files is exactly min(K, max_files).
C5_PredecessorCount ==
    wlog.startEmpty =>
        Cardinality(Predecessors) = Min(wlog.rotations, w.maxFiles)

\* C6: immediately after every rotation the newly opened active file holds the
\* header line and nothing else, and the tracked size equals the header length.
C6_FreshFileIsHeaderOnly ==
    wlog.rotated =>
        /\ w.curSize = HeaderLen
        /\ w.fileOpen /\ w.file = fs.dir[activePath]
        /\ fs.inodes[w.file] = EmptyFile
        /\ w.buf = [n |-> HeaderLen, hdrs |-> 1, recs |-> 0, err |-> FALSE]

\* A second rotation has just happened, on a file that took several records.
C6_Witness ==
    wlog.rotated /\ wlog.rotations >= 2 /\ wlog.writes > wlog.rotations

\* The number of occurrences of the character c in s.
Count(s, c) == Cardinality({i \in 1..Len(s) : s[i] = c})

\* C7: every record WriteEvent appends is one line of exactly 7 tab-separated
\* fields with exactly one newline, at its end, whatever the strings hold.
C7_SevenFieldsOneLine ==
    wlog.op = "WriteEvent" =>
        /\ Count(wlog.line, TAB) = 6
        /\ Count(wlog.line, LF) = 1
        /\ wlog.line[Len(wlog.line)] = LF

\* C8: after a step of a rotation failed, a later WriteEvent is still accepted
\* and leaves the writer with an open active file and a usable buffer.
C8_WriterNotHalted ==
    (wlog.op = "WriteEvent" /\ wlog.afterFault) =>
        (~wlog.err /\ w.fileOpen /\ ~w.buf.err)

\* Inodes are numbered in the order of their creation: the files of the
\* directory are ordered newest to oldest when the active file is the newest
\* and a predecessor of a smaller number is newer.
NewestFirst(fsys) ==
    /\ \A n \in 1..MaxFilesBound :
          fsys.dir[rotatedPath(n)] # 0 => fsys.dir[activePath] > fsys.dir[rotatedPath(n)]
    /\ \A i, j \in 1..MaxFilesBound :
          (i < j /\ fsys.dir[rotatedPath(i)] # 0 /\ fsys.dir[rotatedPath(j)] # 0)
              => fsys.dir[rotatedPath(i)] > fsys.dir[rotatedPath(j)]

\* What a rotation does to the directory it found.
Rotated ==
    LET N   == w.maxFiles
        act == fs.dir[activePath]
    IN  /\ act # 0
        /\ fs'.dir[rotatedPath(1)] = act
        /\ fs'.inodes[act] =
              [size |-> fs.inodes[act].size + w.buf.n + Len(wlog'.line),
               hdrs |-> fs.inodes[act].hdrs + w.buf.hdrs,
               recs |-> fs.inodes[act].recs + w.buf.recs + 1]
        /\ \A i \in 1..(N - 1) :
              /\ fs'.dir[rotatedPath(i + 1)] = fs.dir[rotatedPath(i)]
              /\ fs.dir[rotatedPath(i)] # 0 =>
                    fs'.inodes[fs.dir[rotatedPath(i)]] = fs.inodes[fs.dir[rotatedPath(i)]]
        /\ (N >= 1 /\ fs.dir[rotatedPath(N)] # 0) => ~Linked(fs', fs.dir[rotatedPath(N)])
        /\ fs'.dir[activePath] \notin {0, act}

\* C25: a rotation makes the former active file, with the records written
\* to it, predecessor 1, moves each former predecessor i < max_files to i+1
\* with its content unchanged, and discards the former predecessor
\* max_files, if there was one; a call that does not rotate leaves the
\* directory as it is.  So predecessor 1 is the file rotated last and the
\* predecessors are ordered newest to oldest.
C25_RotationShiftsPredecessors ==
    [][/\ wlog'.rotations = wlog.rotations + 1 => Rotated
       /\ wlog'.rotations = wlog.rotations => fs'.dir = fs.dir
       /\ NewestFirst(fs')]_vars

\* A rotation that found both predecessors has just discarded the older one.
C25_Witness ==
    /\ wlog.rotated /\ wlog.rotations >= 3
    /\ w.maxFiles = 2 /\ Predecessors = {1, 2}

\* The consumer hands an event to the writer; the filesystem does not fail.
ConsumerWrites ==
    /\ \E evt \in WriterEvents(wlog.writes + 1) : WriteEvent(evt, {})
    /\ UNCHANGED notWriter

\* The flusher's tick; the filesystem does not fail.
FlusherTicks ==
    /\ Flush({})
    /\ UNCHANGED notWriter

\* The consumer hands an event to the writer; at most one step of the call fails.
ConsumerWritesFaulty ==
    /\ wlog.writes < MaxFaultyWrites
    /\ \E evt \in WriterEvents(wlog.writes + 1) :
          \E F \in {{}} \cup {{f} : f \in FaultPoints} :
              wlog.faults + Cardinality(F) <= MaxFaults /\ WriteEvent(evt, F)
    /\ UNCHANGED notWriter

\* The flusher's tick; the write may fail.
FlusherTicksFaulty ==
    /\ \E F \in {{}, {<<"flush", 0>>}} :
          wlog.faults + Cardinality(F) <= MaxFaults /\ Flush(F)
    /\ UNCHANGED notWriter


----
(* WriteEvent and Flush as calls that take TSVWriter.mu and run step by step. *)

MaxLockedWrites == 3   \* WriteEvent calls per run of the step-by-step writer

\* A variant of the mutex that lets every caller in.
mutexAlwaysFree(holder) == TRUE

\* sync.Mutex.Lock returns only when nobody holds the mutex.
mutexFree(holder) == holder = "none"

LockInit ==
    wmu = [holder |-> "none", consumer |-> "idle", flusher |-> "idle",
           writes |-> 0, flushes |-> 0]

LockIdle == wmu = 0

\* WriteEvent: w.mu.Lock().
WriteEventLocks ==
    /\ wmu.consumer = "idle" /\ wmu.writes < MaxLockedWrites
    /\ mutexFree(wmu.holder)
    /\ wmu' = [wmu EXCEPT !.holder = "consumer", !.consumer = "write"]
    /\ UNCHANGED <<writerVars, notLock>>

\* WriteEvent: the line goes to the buffer and curSize grows by its length;
\* the call returns (and unlocks) unless curSize has reached maxSize.
WriteEventBuffers ==
    /\ wmu.consumer = "write"
    /\ \E evt \in WriterEvents(wmu.writes + 1) :
          LET line == FormatLine(evt)
              r    == bufWriteString(World, Len(line), 0, 1, 0, FALSE)
              W1   == [r.W EXCEPT !.w.curSize = @ + r.n]
              rot  == ~r.err /\ W1.w.curSize >= W1.w.maxSize
              W2   == IF r.err THEN r.W ELSE W1
          IN  /\ fs' = W2.fs
              /\ w' = W2.w
              /\ wmu' = IF rot
                        THEN [wmu EXCEPT !.consumer = "rotate", !.writes = @ + 1]
                        ELSE [wmu EXCEPT !.consumer = "idle", !.holder = "none",
                                         !.writes = @ + 1]
    /\ UNCHANGED <<wlog, notLock>>

\* rotate: w.buf.Flush() and w.file.Close(); an error ends the call.
RotateCloses ==
    /\ wmu.consumer = "rotate"
    /\ LET f1 == bufFlush(World, FALSE)
           closeErr == ~f1.W.w.fileOpen
           W2 == IF f1.err THEN f1.W ELSE [f1.W EXCEPT !.w.fileOpen = FALSE]
       IN  /\ fs' = W2.fs
           /\ w' = W2.w
           /\ wmu' = IF f1.err \/ closeErr
                     THEN [wmu EXCEPT !.consumer = "idle", !.holder = "none"]
                     ELSE [wmu EXCEPT !.consumer = "closed"]
    /\ UNCHANGED <<wlog, notLock>>

\* rotate: the oldest file is removed, the others are shifted, traces.tsv
\* becomes traces.tsv.1 and openFile starts the next file; the call returns.
RotateReopens ==
    /\ wmu.consumer = "closed"
    /\ LET fsA == osRemove(fs, rotatedPath(w.maxFiles), FALSE)
           fsB == shiftRotated(fsA, w.maxFiles - 1, {})
           fsC == osRename(fsB, activePath, rotatedPath(1), FALSE)
           o   == openFile([fs |-> fsC, w |-> w], FALSE, FALSE)
       IN  /\ fs' = o.W.fs
           /\ w' = o.W.w
    /\ wmu' = [wmu EXCEPT !.consumer = "idle", !.holder = "none"]
    /\ UNCHANGED <<wlog, notLock>>

\* Flush: w.mu.Lock().
FlushLocks ==
    /\ wmu.flusher = "idle" /\ wmu.flushes < MaxLockedWrites
    /\ mutexFree(wmu.holder)
    /\ wmu' = [wmu EXCEPT !.holder = "flusher", !.flusher = "flush"]
    /\ UNCHANGED <<writerVars, notLock>>

\* Flush: w.buf.Flush(), then the deferred Unlock.
FlushWrites ==
    /\ wmu.flusher = "flush"
    /\ LET r == bufFlush(World, FALSE)
       IN  /\ fs' = r.W.fs
           /\ w' = r.W.w
    /\ wmu' = [wmu EXCEPT !.flusher = "idle", !.flushes = @ + 1,
                          !.holder = "none"]
    /\ UNCHANGED <<wlog, notLock>>

\* The callers that are between Lock and Unlock.
InsideWriter ==
    {c \in {"consumer", "flusher"} : wmu[c] # "idle"}

\* C33: WriteEvent and Flush exclude each other (Flush never runs while a
\* rotation is under way), and curSize is always the size of the active file
\* plus the bytes still in the buffer, that is the file's size when it was
\* opened plus the header and record bytes written since.
C33_WriterCallsAreAtomic ==
    /\ Cardinality(InsideWriter) <= 1
    /\ wmu.flusher = "flush" => wmu.consumer \notin {"rotate", "closed"}
    /\ w.curSize = fs.inodes[w.file].size + w.buf.n

\* A flush has happened, and a later WriteEvent is in the middle of a rotation
\* that has closed the old file and not yet opened the next.
C33_Witness ==
    /\ wmu.consumer = "closed" /\ wmu.flushes >= 1 /\ wmu.writes >= 2
    /\ Predecessors # {}


-----------------------------------------------------------------------------
(* parsePodFromCgroupPath and shortenUID: cgroupmap/resolver.go.           *)

strKubepods      == <<"k", "u", "b", "e", "p", "o", "d", "s">>
strPod           == <<"p", "o", "d">>
strSlice         == <<".", "s", "l", "i", "c", "e">>
strScope         == <<".", "s", "c", "o", "p", "e">>
strCriContainerd == <<"c", "r", "i", "-", "c", "o", "n", "t", "a", "i", "n", "e", "r", "d", "-">>
strPodDash       == <<"p", "o", "d", "-">>

ContainerIDLen == 64
ShortUIDLen    == 12

\* Bounds of the cgroup paths explored.
MaxUidLen      == 14   \* pod UIDs of 1..MaxUidLen characters
MaxCidVariants == 1    \* container ids differ in their first MaxCidVariants characters

\* Pod UIDs: letters, with underscores (systemd escaping) among the first two.
UIDs ==
    {[i \in 1..n |-> IF i \in U THEN "_" ELSE "a"] :
        n \in 1..MaxUidLen, U \in SUBSET (1..2)}

\* Container ids: 64 hex characters.
CIDs ==
    {[i \in 1..ContainerIDLen |-> IF i <= k THEN "a" ELSE "0"] : k \in 0..MaxCidVariants}

\* /kubepods.slice/kubepods-burstable.slice/kubepods-burstable-pod<UID>.slice/cri-containerd-<CID>.scope
SystemdPath(uid, cid) ==
    <<"/", "k", "u", "b", "e", "p", "o", "d", "s", ".", "s", "l", "i", "c", "e", "/",
      "k", "u", "b", "e", "p", "o", "d", "s", "-", "b", "u", "r", "s", "t", "a", "b", "l", "e", ".", "s", "l", "i", "c", "e", "/",
      "k", "u", "b", "e", "p", "o", "d", "s", "-", "b", "u", "r", "s", "t", "a", "b", "l", "e", "-", "p", "o", "d">>
        \o uid \o <<".", "s", "l", "i", "c", "e", "/", "c", "r", "i", "-", "c", "o", "n", "t", "a", "i", "n", "e", "r", "d", "-">> \o cid \o strScope

\* /kubepods/burstable/pod<UID>/<CID>
CgroupfsPath(uid, cid) ==
    <<"/", "k", "u", "b", "e", "p", "o", "d", "s", "/", "b", "u", "r", "s", "t", "a", "b", "l", "e", "/", "p", "o", "d">> \o uid \o <<"/">> \o cid

shortenUID(uid) ==
    LET u == ReplaceAll(uid, "_", "-")
    IN  IF Len(u) > ShortUIDLen THEN StrTo(u, ShortUIDLen) ELSE u

\* The loop of parsePodFromCgroupPath over the path segments from index i on;
\* ids holds the locals podUID and containerID.
RECURSIVE scanSegments(_, _, _)
scanSegments(parts, i, ids) ==
    IF i > Len(parts) THEN ids
    ELSE LET part == parts[i]
             idx  == Index(part, strPod)
             rest == TrimSuffix(StrFrom(part, idx + 3), strSlice)
             uid1 == IF idx >= 0 /\ rest # <<>> THEN rest ELSE ids.podUID
             cid1 == IF HasPrefix(part, strCriContainerd)
                     THEN TrimSuffix(TrimPrefix(part, strCriContainerd), strScope)
                     ELSE IF Len(part) = ContainerIDLen THEN part
                     ELSE ids.containerID
         IN  scanSegments(parts, i + 1, [podUID |-> uid1, containerID |-> cid1])

\* The PodInfo returned; nil is [ok |-> FALSE].  podUID is the local the
\* Pod label is made from.
NilInfo == [ok |-> FALSE, Pod |-> <<>>, Container |-> <<>>, podUID |-> <<>>]

parsePodFromCgroupPath(cgPath) ==
    IF ~Contains(cgPath, strKubepods) THEN NilInfo
    ELSE LET ids == scanSegments(Split(cgPath, "/"), 1,
                                 [podUID |-> <<>>, containerID |-> <<>>])
         IN  IF ids.podUID = <<>> THEN NilInfo
             ELSE [ok        |-> TRUE,
                   Pod       |-> strPodDash \o shortenUID(ids.podUID),
                   Container |-> ids.containerID,
                   podUID    |-> ids.podUID]

Pending == [ok |-> FALSE, Pod |-> <<"?">>, Container |-> <<>>, podUID |-> <<>>]

CgInit ==
    /\ cgIn \in {[uid |-> u, cid |-> c] : u \in UIDs, c \in CIDs}
    /\ cgOut = [systemd |-> Pending, cgroupfs |-> Pending]

CgIdle == cgIn = 0 /\ cgOut = 0

\* refresh meets a process of the pod on a node with the systemd cgroup driver.
ParseSystemdPath ==
    /\ cgOut.systemd = Pending
    /\ cgOut' = [cgOut EXCEPT
                    !.systemd = parsePodFromCgroupPath(SystemdPath(cgIn.uid, cgIn.cid))]
    /\ UNCHANGED <<cgIn, notCg>>

\* refresh meets a process of the pod on a node with the cgroupfs driver.
ParseCgroupfsPath ==
    /\ cgOut.cgroupfs = Pending
    /\ cgOut' = [cgOut EXCEPT
                    !.cgroupfs = parsePodFromCgroupPath(CgroupfsPath(cgIn.uid, cgIn.cid))]
    /\ UNCHANGED <<cgIn, notCg>>

----
(* Claims about cgroup path parsing. *)

\* C9: for every pod UID and 64-hex container id, the systemd-form path and
\* the cgroupfs-form path parse to the same identity, with the pod UID equal
\* to UID and the container equal to CID.
C9_BothFormsSameIdentity ==
    (cgOut.systemd # Pending /\ cgOut.cgroupfs # Pending) =>
        /\ cgOut.systemd = cgOut.cgroupfs
        /\ cgOut.systemd.ok
        /\ cgOut.systemd.podUID = cgIn.uid
        /\ cgOut.systemd.Container = cgIn.cid

-----------------------------------------------------------------------------
(* Resolver.refresh and Resolver.Resolve: cgroupmap/resolver.go.           *)

\* Bounds of the resolver runs explored.
MaxProcs     == 2   \* pids under /proc
MaxCgroups   == 2   \* kubepods cgroup directories (inode numbers 1..MaxCgroups)
MaxRefreshes == 2   \* refresh calls per run

Procs   == 1..MaxProcs
CgIDs   == 1..MaxCgroups
\* Resolve is called by the metrics collector and by the trace consumer.
Callers == {"collector", "consumer"}

\* The *PodInfo parsed from the cgroup path of directory c; nil is NilPod.
\* Pod and Container are strings: <<>> is "", <<"pod-", c>> the pod label
\* parsed for directory c.
NilPod     == [Pod |-> <<>>, Container |-> <<>>, CgroupID |-> 0]
PodInfo(c) == [Pod |-> <<"pod-", c>>, Container |-> <<"ctr-", c>>, CgroupID |-> c]

\* make(map[uint64]*PodInfo): a lookup of an absent key yields nil.
EmptyMap == [c \in CgIDs |-> NilPod]

ResolverInit ==
    /\ maps = <<EmptyMap>>
    /\ cache = 1
    /\ refresher = [pc |-> "idle", newCache |-> 0, todo |-> {}, runs |-> 0]
    /\ mu = [readers |-> 0, writer |-> FALSE]
    /\ callers = [r \in Callers |-> [pc |-> "idle", cg |-> 0, src |-> 0, ans |-> NilPod]]
    /\ snapshots = [complete |-> {1}, published |-> <<EmptyMap>>]

ResolverIdle ==
    /\ maps = 0 /\ cache = 0 /\ refresher = 0
    /\ mu = 0 /\ callers = 0 /\ snapshots = 0

\* A variant of refresh that stages its entries in the live map.
RefreshBeginInPlace ==
    /\ refresher.pc = "idle" /\ refresher.runs < MaxRefreshes
    /\ \E entries \in SUBSET Procs :
          refresher' = [pc |-> "scan", newCache |-> cache, todo |-> entries,
                        runs |-> refresher.runs + 1]
    /\ maps' = Append(maps, EmptyMap)
    /\ snapshots' = [snapshots EXCEPT !.published = Append(@, EmptyMap)]
    /\ UNCHANGED <<cache, mu, callers, notResolver>>

\* refresh: newCache := make(map); entries := os.ReadDir(procRoot), the pids
\* present at that moment.
RefreshBegin ==
    /\ refresher.pc = "idle" /\ refresher.runs < MaxRefreshes
    /\ \E entries \in SUBSET Procs :
          refresher' = [pc |-> "scan", newCache |-> Len(maps) + 1, todo |-> entries,
                        runs |-> refresher.runs + 1]
    /\ maps' = Append(maps, EmptyMap)
    /\ snapshots' = [snapshots EXCEPT !.published = Append(@, EmptyMap)]
    /\ UNCHANGED <<cache, mu, callers, notResolver>>

\* refresh: os.ReadDir fails; refresh returns and the live map stays.
RefreshReadDirFails ==
    /\ refresher.pc = "idle" /\ refresher.runs < MaxRefreshes
    /\ refresher' = [refresher EXCEPT !.runs = @ + 1]
    /\ UNCHANGED <<maps, cache, mu, callers, snapshots, notResolver>>

\* refresh: one iteration of the loop over the /proc entries.  The process is
\* found in kubepods cgroup c at that moment; c = 0 is a process with no
\* kubepods cgroup, or one that exited or whose cgroup directory is gone, and
\* it is skipped.
RefreshScanEntry ==
    /\ refresher.pc = "scan"
    /\ \E p \in refresher.todo, c \in {0} \cup CgIDs :
          /\ refresher' = [refresher EXCEPT !.todo = @ \ {p}]
          /\ maps' = IF c = 0 THEN maps
                     ELSE [maps EXCEPT ![refresher.newCache][c] = PodInfo(c)]
    /\ UNCHANGED <<cache, mu, callers, snapshots, notResolver>>

\* refresh: the loop is over; r.mu.Lock().
RefreshLock ==
    /\ refresher.pc = "scan" /\ refresher.todo = {}
    /\ mu.readers = 0 /\ ~mu.writer
    /\ mu' = [mu EXCEPT !.writer = TRUE]
    /\ refresher' = [refresher EXCEPT !.pc = "locked"]
    /\ snapshots' = [snapshots EXCEPT !.complete = @ \cup {refresher.newCache}]
    /\ UNCHANGED <<maps, cache, callers, notResolver>>

\* The map at address a is referenced by the resolver, by the refresh in
\* progress, or by a Resolve call.
Reachable(a, live, staging) ==
    \/ a = live
    \/ a = staging
    \/ \E r \in Callers : callers[r].src = a

\* The garbage collector: a map nothing references any more is reclaimed.
Reclaim(heap, live, staging) ==
    [a \in DOMAIN heap |-> IF Reachable(a, live, staging) THEN heap[a] ELSE EmptyMap]

\* refresh: r.cache = newCache; r.mu.Unlock().  The previous map is dropped.
RefreshPublish ==
    /\ refresher.pc = "locked"
    /\ cache' = refresher.newCache
    /\ maps' = Reclaim(maps, refresher.newCache, 0)
    /\ snapshots' = [complete  |-> {a \in snapshots.complete \cup {refresher.newCache} :
                                       Reachable(a, refresher.newCache, 0)},
                     published |-> Reclaim([snapshots.published EXCEPT
                                                ![refresher.newCache] =
                                                    maps[refresher.newCache]],
                                            refresher.newCache, 0)]
    /\ mu' = [mu EXCEPT !.writer = FALSE]
    /\ refresher' = [refresher EXCEPT !.pc = "idle", !.newCache = 0]
    /\ UNCHANGED <<callers, notResolver>>

\* Resolve(cgroupID): r.mu.RLock().
ResolveRLock ==
    /\ \E r \in Callers, c \in CgIDs :
          /\ callers[r].pc = "idle"
          /\ ~mu.writer
          /\ callers' = [callers EXCEPT ![r] = [pc |-> "rlocked", cg |-> c,
                                                src |-> 0, ans |-> NilPod]]
    /\ mu' = [mu EXCEPT !.readers = @ + 1]
    /\ UNCHANGED <<maps, cache, refresher, snapshots, notResolver>>

\* Resolve: r.cache[cgroupID].
ResolveRead ==
    /\ \E r \in Callers :
          /\ callers[r].pc = "rlocked"
          /\ callers' = [callers EXCEPT ![r].pc = "read", ![r].src = cache,
                                        ![r].ans = maps[cache][callers[r].cg]]
    /\ UNCHANGED <<maps, cache, refresher, mu, snapshots, notResolver>>

\* Resolve: the deferred r.mu.RUnlock(), and the return to the caller.
ResolveReturn ==
    /\ \E r \in Callers :
          /\ callers[r].pc = "read"
          /\ callers' = [callers EXCEPT ![r] = [pc |-> "idle", cg |-> 0,
                                                src |-> 0, ans |-> NilPod]]
    /\ mu' = [mu EXCEPT !.readers = @ - 1]
    /\ UNCHANGED <<maps, cache, refresher, snapshots, notResolver>>

----
(* Claims about the resolver's snapshots. *)

\* C10: a Resolve call running concurrently with a refresh answers from a map
\* whose scan had completed (the previous snapshot or the new one), never from
\* a partly built map, and a map is never modified once it has been published
\* as the live snapshot.
C10_SnapshotsNeverTorn ==
    /\ cache \in snapshots.complete
    /\ maps[cache] = snapshots.published[cache]
    /\ \A r \in Callers :
          callers[r].src # 0 =>
              /\ callers[r].src \in snapshots.complete
              /\ maps[callers[r].src] = snapshots.published[callers[r].src]
              /\ callers[r].ans = snapshots.published[callers[r].src][callers[r].cg]

\* A Resolve call got a pod from the previous snapshot while a refresh had
\* staged part of its entries.
C10_Witness ==
    /\ refresher.pc = "scan" /\ refresher.todo # {}
    /\ maps[refresher.newCache] # EmptyMap
    /\ \E r \in Callers : callers[r].pc = "read" /\ callers[r].ans # NilPod

\* The steps of refresh: the start of a scan, one entry of the scan, and
\* the replacement of the live map.
ScanStarts    == refresher.pc = "idle" /\ refresher'.pc = "scan"
ScanContinues == refresher.pc = "scan" /\ refresher'.pc = "scan"
ScanPublished == refresher.pc = "locked" /\ refresher'.pc = "idle"

\* C30: a scan starts from an empty map that is not the live one, each of
\* its entries adds at most the id of the cgroup found, with the identity
\* parsed for that cgroup (so a second process of the cgroup, in whatever
\* order, changes nothing), and a completed scan makes its map the live
\* snapshot as it is, while every other step leaves the live snapshot
\* alone.  The live snapshot after a refresh thus holds exactly the ids
\* its scan found, and an id of the previous snapshot that the scan did not
\* find no longer resolves.
C30_SnapshotIsWhatTheScanFound ==
    [][/\ ScanStarts =>
             /\ refresher'.newCache # cache
             /\ maps'[refresher'.newCache] = EmptyMap
       /\ ScanContinues =>
             LET staged == maps[refresher.newCache]
             IN  \/ maps'[refresher.newCache] = staged
                 \/ \E c \in CgIDs :
                       maps'[refresher.newCache] = [staged EXCEPT ![c] = PodInfo(c)]
       /\ ScanPublished =>
             /\ cache' = refresher.newCache
             /\ maps'[cache'] = maps[refresher.newCache]
       /\ ~ScanPublished => (cache' = cache /\ maps'[cache] = maps[cache])]_vars

\* The second scan is complete and about to replace the live snapshot: it
\* found a cgroup the first had not, and did not find one the live
\* snapshot holds.
C30_Witness ==
    /\ refresher.pc = "locked" /\ refresher.runs = 2
    /\ \E c, d \in CgIDs :
          /\ maps[cache][c] # NilPod /\ maps[refresher.newCache][c] = NilPod
          /\ maps[cache][d] = NilPod /\ maps[refresher.newCache][d] = PodInfo(d)

-----------------------------------------------------------------------------
(* The counting probes: internal/ebpf/dentry.c.                            *)

\* Bounds of the kernel runs explored.
MapMaxEntries == 2   \* max_entries of dentry_stats_map, scaled down from 4096
MaxHits       == 2   \* probe hits per run

\* Two CPUs, on which probes fire concurrently.
CPUs == {1, 2}

\* The cgroups tasks run in: one more than the stats map can hold.  Those
\* beyond CgIDs are not kubepods cgroups and are never resolved.
CgroupIDs == 1..(MapMaxEntries + 1)

\* A NULL map value pointer.
NULL == 0

\* struct dentry_stats, and a key with no element in the map.
ZeroStats   == [present |-> TRUE, alloc |-> 0, positive |-> 0, negative |-> 0]
AbsentStats == [present |-> FALSE, alloc |-> 0, positive |-> 0, negative |-> 0]

CpuIdle == [prog |-> "none", pc |-> "idle", cgid |-> 0, inode |-> FALSE, stats |-> NULL]

MapKeys(m) == {c \in DOMAIN m : m[c].present}

\* bpf_map_lookup_elem(&dentry_stats_map, &cgid): the element, or NULL.
bpf_map_lookup_elem(m, cgid) == IF m[cgid].present THEN cgid ELSE NULL

\* bpf_map_update_elem with BPF_ANY: creates the element or overwrites it.
bpf_map_update_any(m, cgid, val) ==
    IF ~m[cgid].present /\ Cardinality(MapKeys(m)) >= MapMaxEntries
    THEN m
    ELSE [m EXCEPT ![cgid] = val]

\* A variant of the insert into a map that takes any number of elements.
bpf_map_update_unbounded(m, cgid, val) ==
    IF m[cgid].present THEN m ELSE [m EXCEPT ![cgid] = val]

\* bpf_map_update_elem(&dentry_stats_map, &cgid, &zero, BPF_NOEXIST): fails
\* with EEXIST when the key has an element and with E2BIG when the map is full.
bpf_map_update_elem(m, cgid, val) ==
    IF m[cgid].present \/ Cardinality(MapKeys(m)) >= MapMaxEntries
    THEN m
    ELSE [m EXCEPT ![cgid] = val]

\* The stats map as the program loads it (empty), or as earlier d_alloc hits
\* in MapMaxEntries cgroups left it (full).
KernelInit ==
    /\ \E full \in BOOLEAN :
          statsMap = [c \in CgroupIDs |->
                        IF full /\ c <= MapMaxEntries
                        THEN [ZeroStats EXCEPT !.alloc = 1] ELSE AbsentStats]
    /\ reclaimCount = 0
    /\ cpu = [k \in CPUs |-> CpuIdle]
    /\ probeHits = 0

KernelIdle == statsMap = 0 /\ reclaimCount = 0 /\ cpu = 0 /\ probeHits = 0

\* The probes main attaches: the three counting programs, and the
\* path-capture program.
CoreProbes == {"d_alloc", "d_instantiate", "shrink_dcache_sb"}
PathProbe  == "d_alloc_path"

RingIdle == links = {} /\ configMap = 0 /\ ring = 0 /\ tracer = 0

\* The counting probes alone: the path-capture program is not attached.
CountingLinks == links = CoreProbes /\ configMap = 0 /\ ring = 0 /\ tracer = 0

\* A task in cgroup cgid calls d_alloc or d_instantiate, to which the
\* counting program is attached, on an idle CPU (the CPUs are alike: the
\* first idle one): the probe program starts with
\* bpf_get_current_cgroup_id().
KprobeFires ==
    /\ probeHits < MaxHits
    /\ \E k \in CPUs, cgid \in CgroupIDs,
          hit \in {<<"d_alloc", FALSE>>, <<"d_instantiate", FALSE>>, <<"d_instantiate", TRUE>>} :
          /\ hit[1] \in links
          /\ cpu[k].pc = "idle" /\ \A j \in CPUs : j < k => cpu[j].pc # "idle"
          /\ cpu' = [cpu EXCEPT ![k] = [prog |-> hit[1], pc |-> "lookup", cgid |-> cgid,
                                         inode |-> hit[2], stats |-> NULL]]
    /\ probeHits' = probeHits + 1
    /\ UNCHANGED <<statsMap, reclaimCount, colVars, maps, cache, notCounters>>

\* get_or_create_stats: the first bpf_map_lookup_elem.
StatsLookup ==
    /\ \E k \in CPUs :
          /\ cpu[k].pc = "lookup"
          /\ LET stats == bpf_map_lookup_elem(statsMap, cpu[k].cgid) IN
                cpu' = [cpu EXCEPT ![k].stats = stats,
                                   ![k].pc = IF stats # NULL THEN "add" ELSE "create"]
    /\ UNCHANGED <<statsMap, reclaimCount, probeHits, colVars, maps, cache, notCounters>>

\* get_or_create_stats: insert the zero struct if the key is absent, then the
\* second bpf_map_lookup_elem.  No element is ever deleted, so what the lookup
\* returns is settled by the insert.
StatsCreate ==
    /\ \E k \in CPUs :
          /\ cpu[k].pc = "create"
          /\ statsMap' = bpf_map_update_elem(statsMap, cpu[k].cgid, ZeroStats)
          /\ cpu' = [cpu EXCEPT ![k].stats = bpf_map_lookup_elem(statsMap', cpu[k].cgid),
                                ![k].pc = "add"]
    /\ UNCHANGED <<reclaimCount, probeHits, colVars, maps, cache, notCounters>>

\* trace_d_alloc: if (stats) __sync_fetch_and_add(&stats->alloc, 1).  When
\* the path-capture program is attached to d_alloc too, it runs next on the
\* same CPU.
trace_d_alloc ==
    /\ \E k \in CPUs :
          /\ cpu[k].pc = "add" /\ cpu[k].prog = "d_alloc"
          /\ statsMap' = IF cpu[k].stats = NULL THEN statsMap
                         ELSE [statsMap EXCEPT ![cpu[k].stats].alloc = @ + 1]
          /\ cpu' = [cpu EXCEPT ![k] = IF PathProbe \in links
                                       THEN [cpu[k] EXCEPT !.pc = "path"]
                                       ELSE CpuIdle]
    /\ UNCHANGED <<reclaimCount, probeHits, colVars, maps, cache, notCounters>>

\* A variant that counts every instantiation as positive.
instantiateAlwaysPositive(m, stats, inode) ==
    IF stats = NULL THEN m
    ELSE [m EXCEPT ![stats].positive = @ + 1]

\* trace_d_instantiate: if (!stats) return 0; then the fetch-and-add on
\* positive (inode != NULL) or negative (inode == NULL).
instantiate(m, stats, inode) ==
    IF stats = NULL THEN m
    ELSE IF inode THEN [m EXCEPT ![stats].positive = @ + 1]
    ELSE [m EXCEPT ![stats].negative = @ + 1]

trace_d_instantiate ==
    /\ \E k \in CPUs :
          /\ cpu[k].pc = "add" /\ cpu[k].prog = "d_instantiate"
          /\ statsMap' = instantiate(statsMap, cpu[k].stats, cpu[k].inode)
          /\ cpu' = [cpu EXCEPT ![k] = CpuIdle]
    /\ UNCHANGED <<reclaimCount, probeHits, colVars, maps, cache, notCounters>>

\* trace_shrink_dcache: the lookup in the one-element array, then the
\* fetch-and-add.
trace_shrink_dcache ==
    /\ probeHits < MaxHits
    /\ "shrink_dcache_sb" \in links
    /\ \E k \in CPUs : cpu[k].pc = "idle"
    /\ reclaimCount' = reclaimCount + 1
    /\ probeHits' = probeHits + 1
    /\ UNCHANGED <<statsMap, cpu, colVars, maps, cache, notCounters>>

-----------------------------------------------------------------------------
(* Collector.Poll and Collector.Collect: internal/metrics/collector.go.    *)

\* A field of /proc/sys/fs/dentry-state: decimal digits, or something else.
IntField(n) == <<"int", n>>
JunkField   == <<"junk", 0>>

\* No file: os.Open fails.
NoFile == [open |-> FALSE, fields |-> <<>>]

\* What /proc/sys/fs/dentry-state may hold when it can be opened: nothing,
\* or a line of 4 or 5 fields (nr_dentry nr_unused age_limit want_pages
\* nr_negative), the first and the last of them either a number or not.
DentryStateFiles ==
    {NoFile, [open |-> TRUE, fields |-> <<>>]}
    \cup {[open |-> TRUE, fields |-> <<a, IntField(5), IntField(45), IntField(0)>> \o tail] :
             a \in {IntField(7), JunkField},
             tail \in {<<>>, <<IntField(3)>>, <<JunkField>>}}

\* strconv.ParseInt(field, 10, 64): the value, or 0 and an error.
ParseInt(field) ==
    IF field[1] = "int" THEN [val |-> field[2], err |-> FALSE]
    ELSE [val |-> 0, err |-> TRUE]

\* readDentryState: -1, -1, -1 when the file cannot be opened, is empty or
\* has fewer than 5 fields; otherwise the three values ParseInt returned,
\* its errors ignored.
readDentryState(file) ==
    IF ~file.open \/ Len(file.fields) < 5
    THEN <<-1, -1, -1>>
    ELSE <<ParseInt(file.fields[1]).val, ParseInt(file.fields[2]).val,
           ParseInt(file.fields[5]).val>>

\* make(map[uint64]DentryStats)
NoStats == [c \in CgroupIDs |-> AbsentStats]

\* NewCollector, seen from the poller.
PollerInit ==
    /\ poller = [pc |-> "idle", newStats |-> NoStats, key |-> 0]
    /\ cstats = NoStats

\* NewCollector, seen from a scrape.
ScrapeInit ==
    /\ cstats = NoStats
    /\ scrape = [pc |-> "idle", snapshot |-> NoStats, todo |-> {},
                 info |-> [c \in CgroupIDs |-> NilPod], out |-> <<>>,
                 file |-> NoFile]

PollerIdle == poller = 0
ScrapeIdle == scrape = 0
CollectorIdle == PollerIdle /\ ScrapeIdle /\ cstats = 0

\* The resolver as the collector sees it: the live map and nothing else.
ResolverLive ==
    /\ maps = <<EmptyMap>> /\ cache = 1
    /\ refresher = 0 /\ mu = 0 /\ callers = 0 /\ snapshots = 0

\* A refresh of the resolver publishes a new map.
ResolverRefreshes ==
    /\ \E known \in SUBSET CgIDs :
          maps' = <<[c \in CgIDs |-> IF c \in known THEN PodInfo(c) ELSE NilPod]>>
    /\ maps' # maps
    /\ UNCHANGED <<cache, kernVars, colVars, notCounters>>

\* Resolver.Resolve: r.cache[cgroupID], nil for a key the map does not hold.
Resolve(cgroupID) ==
    IF cgroupID \in DOMAIN maps[cache] THEN maps[cache][cgroupID] ELSE NilPod

\* fmt.Sprintf("cgroup-%d", cgID)
SyntheticPod(cgID) == <<"cgroup-", cgID>>

\* Collector.resolveLabels
resolveLabels(cgID) ==
    LET info == Resolve(cgID) IN
    IF info # NilPod THEN <<info.Pod, info.Container>>
    ELSE <<SyntheticPod(cgID), <<>>>>

ConstMetric(desc, value, labels) == [desc |-> desc, value |-> value, labels |-> labels]

\* A variant of the loop body that skips the ids the resolver does not know.
counterSeriesResolvedOnly(s, labels) ==
    IF labels[2] = <<>> THEN <<>>
    ELSE <<ConstMetric("dentry_alloc_total", s.alloc, labels),
           ConstMetric("dentry_positive_total", s.positive, labels),
           ConstMetric("dentry_negative_total", s.negative, labels)>>

\* Collect: the three metrics sent for one entry of the snapshot.
counterSeries(s, labels) ==
    <<ConstMetric("dentry_alloc_total", s.alloc, labels),
      ConstMetric("dentry_positive_total", s.positive, labels),
      ConstMetric("dentry_negative_total", s.negative, labels)>>

\* The keys of the map that the iterator has still to visit: the walk is in
\* the order of the map's buckets, here the order of the ids, so that a key
\* inserted behind the iterator is missed and one inserted ahead is met.
KeysAhead(m, key) == {c \in MapKeys(m) : c > key}

NextKey(m, key) == CHOOSE c \in KeysAhead(m, key) : \A d \in KeysAhead(m, key) : c <= d

\* Poll: newStats := make(map); iter := c.statsMap.Iterate().
PollBegin ==
    /\ poller.pc = "idle"
    /\ poller' = [pc |-> "iter", newStats |-> NoStats, key |-> 0]
    /\ UNCHANGED <<cstats, scrape, kernVars, maps, cache, notCounters>>

\* Poll: iter.Next(&key, &val); newStats[key] = val.
PollNext ==
    /\ poller.pc = "iter"
    /\ KeysAhead(statsMap, poller.key) # {}
    /\ LET key == NextKey(statsMap, poller.key) IN
          poller' = [poller EXCEPT !.newStats[key] = statsMap[key], !.key = key]
    /\ UNCHANGED <<cstats, scrape, kernVars, maps, cache, notCounters>>

\* Poll: the loop ends, at the end of the map or on an iteration error (which
\* is logged); c.stats = newStats under c.mu.
PollStore ==
    /\ poller.pc = "iter"
    /\ \E iterErr \in BOOLEAN :
          iterErr \/ KeysAhead(statsMap, poller.key) = {}
    /\ cstats' = poller.newStats
    /\ poller' = [pc |-> "idle", newStats |-> NoStats, key |-> 0]
    /\ UNCHANGED <<scrape, kernVars, maps, cache, notCounters>>

\* What a poll read for cgroup c: 3c allocations, of which 2c were
\* instantiated positive and c negative.
PolledStats(c) == [present |-> TRUE, alloc |-> 3 * c, positive |-> 2 * c, negative |-> c]

\* A poll ends while scrapes run: c.stats = newStats under c.mu.
PollPublishes ==
    /\ \E keys \in SUBSET CgroupIDs :
          /\ Cardinality(keys) <= MapMaxEntries
          /\ cstats' = [c \in CgroupIDs |-> IF c \in keys THEN PolledStats(c) ELSE AbsentStats]
    /\ cstats' # cstats
    /\ UNCHANGED <<poller, scrape, kernVars, maps, cache, notCounters>>

\* Collect: snapshot := c.stats under c.mu.
CollectBegin ==
    /\ scrape.pc \in {"idle", "done"}
    /\ scrape' = [pc |-> "range", snapshot |-> cstats, todo |-> MapKeys(cstats),
                  info |-> [c \in CgroupIDs |-> NilPod], out |-> <<>>,
                  file |-> NoFile]
    /\ UNCHANGED <<poller, cstats, kernVars, maps, cache, notCounters>>

\* Collect: one iteration of the range over the snapshot.
CollectEntry ==
    /\ scrape.pc = "range"
    /\ \E cgID \in scrape.todo :
          scrape' = [scrape EXCEPT
                        !.todo = @ \ {cgID},
                        !.info[cgID] = Resolve(cgID),
                        !.out = @ \o counterSeries(scrape.snapshot[cgID],
                                                   resolveLabels(cgID))]
    /\ UNCHANGED <<poller, cstats, kernVars, maps, cache, notCounters>>

\* Collect: the reclaim counter, and the three node gauges when
\* readDentryState returns a total that is not negative.
CollectEnd ==
    /\ scrape.pc = "range" /\ scrape.todo = {}
    /\ \E file \in DentryStateFiles :
          LET state == readDentryState(file) IN
          scrape' = [scrape EXCEPT
                        !.pc = "done",
                        !.file = file,
                        !.out = @ \o <<ConstMetric("dentry_reclaim_total", reclaimCount, <<>>)>>
                                  \o (IF state[1] >= 0
                                      THEN <<ConstMetric("dentry_count", state[1], <<"total">>),
                                             ConstMetric("dentry_count", state[2], <<"unused">>),
                                             ConstMetric("dentry_count", state[3], <<"negative">>)>>
                                      ELSE <<>>)]
    /\ UNCHANGED <<poller, cstats, kernVars, maps, cache, notCounters>>

----
(* Claims about the counters. *)

Sent(m) == \E i \in 1..Len(scrape.out) : scrape.out[i] = m

CounterDescs == {"dentry_alloc_total", "dentry_positive_total", "dentry_negative_total"}

\* C11: on every scrape each cgroup id of the polled snapshot yields its
\* alloc, positive and negative series; an id the resolver did not know
\* carries the pod label cgroup-<id>; no id of the snapshot is left out, also
\* while the resolver knows nothing yet.
C11_EveryCgroupScraped ==
    scrape.pc = "done" =>
        /\ \A cgID \in MapKeys(scrape.snapshot) :
              LET s == scrape.snapshot[cgID]
                  labels == IF scrape.info[cgID] = NilPod
                            THEN <<SyntheticPod(cgID), <<>>>>
                            ELSE <<scrape.info[cgID].Pod, scrape.info[cgID].Container>>
              IN  /\ Sent(ConstMetric("dentry_alloc_total", s.alloc, labels))
                  /\ Sent(ConstMetric("dentry_positive_total", s.positive, labels))
                  /\ Sent(ConstMetric("dentry_negative_total", s.negative, labels))
        /\ Cardinality({i \in 1..Len(scrape.out) : scrape.out[i].desc \in CounterDescs})
              = 3 * Cardinality(MapKeys(scrape.snapshot))

\* A scrape of two cgroups has ended, one the resolver knew and one it did not.
C11_Witness ==
    /\ scrape.pc = "done"
    /\ \E c1, c2 \in MapKeys(scrape.snapshot) :
          scrape.info[c1] = NilPod /\ scrape.info[c2] # NilPod

Leq(a, b) ==
    /\ a.present => b.present
    /\ a.alloc <= b.alloc /\ a.positive <= b.positive /\ a.negative <= b.negative

\* C12: for every cgroup id, no step lowers a counter of its kernel record or
\* removes the record, and no poll reports less for the id than the poll
\* before it did, whatever the interleaving of the probes on the CPUs and the
\* polls.
C12_CountersNeverDecrease ==
    [][\A c \in CgroupIDs :
          /\ Leq(statsMap[c], statsMap'[c])
          /\ (cstats[c].present /\ cstats'[c].present) => Leq(cstats[c], cstats'[c])]_vars

\* Two hits in a cgroup created its record and counted, a poll reported the
\* record after the first, and the next poll has read it after the second.
C12_Witness ==
    \E c \in CgroupIDs :
        /\ MapKeys(statsMap) = {c}
        /\ cstats[c].present
        /\ cstats[c].alloc + cstats[c].positive + cstats[c].negative = 1
        /\ poller.newStats[c].alloc + poller.newStats[c].positive + poller.newStats[c].negative = 2

\* The step in which the d_instantiate program on CPU k returns.
InstantiateReturns(k) ==
    cpu[k].prog = "d_instantiate" /\ cpu[k].pc = "add" /\ cpu'[k].pc = "idle"

\* stats[c] with the counter for the inode argument raised by one.
Counted(c, inode) ==
    IF inode THEN [statsMap EXCEPT ![c].positive = @ + 1]
    ELSE [statsMap EXCEPT ![c].negative = @ + 1]

\* C13 as stated: each d_instantiate hit in cgroup c increments exactly one
\* counter of stats[c] by 1 (positive for a non-null inode, negative for a
\* null one) and leaves stats[c].alloc, the reclaim counter and every other
\* cgroup's record unchanged.
C13_InstantiateCountsOne ==
    [][\A k \in CPUs :
          InstantiateReturns(k) =>
              /\ statsMap[cpu[k].cgid].present
              /\ statsMap' = Counted(cpu[k].cgid, cpu[k].inode)
              /\ reclaimCount' = reclaimCount]_vars

\* C13 amended: a d_instantiate hit in cgroup c whose record exists or could
\* be created increments exactly one counter of stats[c] by 1 and leaves the
\* rest unchanged; a hit in a cgroup that has no record while the map is full
\* changes no counter at all.
C13_InstantiateCountsOneIfRecord ==
    [][\A k \in CPUs :
          InstantiateReturns(k) =>
              /\ reclaimCount' = reclaimCount
              /\ IF statsMap[cpu[k].cgid].present
                 THEN statsMap' = Counted(cpu[k].cgid, cpu[k].inode)
                 ELSE /\ statsMap' = statsMap
                      /\ Cardinality(MapKeys(statsMap)) >= MapMaxEntries]_vars

\* Both kinds of instantiation were counted in one cgroup, next to the
\* record of another cgroup.
C13_Witness ==
    \E c, d \in CgroupIDs :
        /\ c # d /\ statsMap[d] = [ZeroStats EXCEPT !.alloc = 1]
        /\ statsMap[c].positive = 1 /\ statsMap[c].negative = 1

\* The sum of the three counters of a record.
Total(s) == s.alloc + s.positive + s.negative

\* The map holds max_entries elements.
Full == Cardinality(MapKeys(statsMap)) >= MapMaxEntries

\* The steps of the program on CPU k: the insert of get_or_create_stats, and
\* the fetch-and-add.
CreateStep(k) == cpu[k].pc = "create" /\ cpu'[k].pc = "add"
AddStep(k)    == cpu[k].pc = "add" /\ cpu'[k].pc # "add"

\* C28: while hits of a cgroup without a record run on several CPUs, no
\* step lowers a counter; the insert of the zero record leaves a record
\* that exists (and the increments it holds) as it is, and gives the hit a
\* record whenever the map has room; and every fetch-and-add on a record
\* raises exactly one counter of that record by one from its current value.
\* So when the hits have completed each counter is the number of increments
\* applied to it.
C28_LazyCreationKeepsIncrements ==
    [][/\ \A c \in CgroupIDs : Leq(statsMap[c], statsMap'[c])
       /\ \A k \in CPUs :
             LET c == cpu[k].cgid IN
             /\ CreateStep(k) =>
                   /\ statsMap[c].present => statsMap' = statsMap
                   /\ (statsMap[c].present \/ ~Full) =>
                         (cpu'[k].stats = c /\ statsMap'[c].present)
                   /\ \A d \in CgroupIDs \ {c} : statsMap'[d] = statsMap[d]
             /\ (AddStep(k) /\ cpu[k].stats # NULL) =>
                   /\ cpu[k].stats = c /\ statsMap[c].present
                   /\ Total(statsMap'[c]) = Total(statsMap[c]) + 1
                   /\ \A d \in CgroupIDs \ {c} : statsMap'[d] = statsMap[d]]_vars

\* A hit that found no record is about to insert the zero record, while
\* the hit of another CPU in the same cgroup has created the record and
\* counted in it.
C28_Witness ==
    \E k \in CPUs :
        /\ cpu[k].pc = "create"
        /\ statsMap[cpu[k].cgid].present /\ Total(statsMap[cpu[k].cgid]) = 1
        /\ \A j \in CPUs \ {k} : cpu[j] = CpuIdle

\* C29: the map never holds more than max_entries elements; while it holds
\* that many, no step of a hit in a cgroup without a record changes the
\* map, and the hit ends without a record, while a hit in a cgroup with a
\* record leaves the set of records as it is and adds one to a counter of
\* its record.
C29_FullMapIgnoresNewCgroups ==
    /\ [](Cardinality(MapKeys(statsMap)) <= MapMaxEntries)
    /\ [][\A k \in CPUs :
            LET c == cpu[k].cgid IN
            (Full /\ cpu[k].pc \in {"lookup", "create", "add"} /\ cpu'[k] # cpu[k]) =>
                IF statsMap[c].present
                THEN /\ MapKeys(statsMap') = MapKeys(statsMap)
                     /\ AddStep(k) => Total(statsMap'[c]) = Total(statsMap[c]) + 1
                ELSE /\ statsMap' = statsMap
                     /\ cpu'[k].pc \in {"add", "idle"} => cpu'[k].stats = NULL]_vars

\* On a full map two hits have completed: the one in a cgroup with a record
\* was counted, the one in the cgroup without a record left no trace.
C29_Witness ==
    /\ Full /\ probeHits = 2 /\ reclaimCount = 0
    /\ \A k \in CPUs : cpu[k] = CpuIdle
    /\ \E c \in CgroupIDs : ~statsMap[c].present
    /\ \E c \in CgroupIDs : Total(statsMap[c]) = 2
    /\ \A c \in CgroupIDs : statsMap[c].present => Total(statsMap[c]) >= 1

\* The file cannot be opened, has too few fields, or one of the fields read
\* (nr_dentry, nr_unused, nr_negative) is not an integer.
BadDentryState(file) ==
    \/ ~file.open
    \/ Len(file.fields) < 5
    \/ \E i \in {1, 2, 5} : ParseInt(file.fields[i]).err

\* C22: a scrape that found /proc/sys/fs/dentry-state unreadable, too short
\* or with a field that is not an integer sends no dentry_count gauge, and
\* still sends the reclaim counter and the three counters of every cgroup of
\* the snapshot.
C22_BadStateOmitsGauges ==
    (scrape.pc = "done" /\ BadDentryState(scrape.file)) =>
        /\ \A i \in 1..Len(scrape.out) : scrape.out[i].desc # "dentry_count"
        /\ \E i \in 1..Len(scrape.out) : scrape.out[i].desc = "dentry_reclaim_total"
        /\ Cardinality({i \in 1..Len(scrape.out) : scrape.out[i].desc \in CounterDescs})
              = 3 * Cardinality(MapKeys(scrape.snapshot))

-----------------------------------------------------------------------------
(* The path-capture program and the ring buffer: internal/ebpf/dentry.c,   *)
(* trace_d_alloc_path, and the reader loop of Consumer.Start.              *)

\* The records the ring buffer holds: (1 << 21) bytes of
\* sizeof(struct dentry_trace_event), scaled down.
RingSlots == 1

\* A variant that takes tracing as switched on whatever the map holds.
tracingAlwaysEnabled == TRUE

\* tracing_enabled(): cfg && cfg->enabled.
tracing_enabled == configMap # 0

\* bpf_ringbuf_reserve: a busy record at the producer end, or NULL when the
\* buffer has no room for it.
bpf_ringbuf_reserve(r, k, cgid) ==
    IF Len(r) < RingSlots
    THEN Append(r, [cpu |-> k, busy |-> TRUE, cgroup_id |-> cgid])
    ELSE r

\* bpf_ringbuf_submit: the record of CPU k is committed.
bpf_ringbuf_submit(r, k) ==
    [i \in 1..Len(r) |-> IF r[i].cpu = k /\ r[i].busy
                         THEN [r[i] EXCEPT !.busy = FALSE] ELSE r[i]]

\* A variant that tries the reservation again.
reserveRetried(c) == c

\* if (!evt) return 0;
reserveFailed(c) == CpuIdle

\* One more d_alloc hit of a cgroup with a record has returned.
Returned(c) ==
    IF c.stats = NULL THEN tracer.counted
    ELSE [tracer.counted EXCEPT ![c.stats] = @ + 1]

RingInit ==
    /\ links = CoreProbes \cup {PathProbe}
    /\ configMap \in {0, 1}
    /\ ring = <<>>
    /\ tracer = [reserved |-> 0, failed |-> 0, read |-> 0, dropped |-> 0,
                 base    |-> [c \in CgroupIDs |-> statsMap[c].alloc],
                 counted |-> [c \in CgroupIDs |-> 0]]

\* trace_d_alloc_path up to the reservation: return when tracing is off, when
\* the parent is NULL, or when bpf_ringbuf_reserve returns NULL.
trace_d_alloc_path ==
    /\ \E k \in CPUs, parent \in BOOLEAN :
          /\ cpu[k].pc = "path" /\ cpu[k].prog = "d_alloc"
          /\ IF ~tracing_enabled \/ ~parent
             THEN /\ cpu' = [cpu EXCEPT ![k] = CpuIdle]
                  /\ tracer' = [tracer EXCEPT !.counted = Returned(cpu[k])]
                  /\ ring' = ring
             ELSE LET evt == bpf_ringbuf_reserve(ring, k, cpu[k].cgid) IN
                  IF evt = ring
                  THEN /\ cpu' = [cpu EXCEPT ![k] = reserveFailed(cpu[k])]
                       /\ tracer' = [tracer EXCEPT !.failed = @ + 1,
                                                   !.counted = Returned(cpu[k])]
                       /\ ring' = ring
                  ELSE /\ cpu' = [cpu EXCEPT ![k].pc = "fill"]
                       /\ tracer' = [tracer EXCEPT !.reserved = @ + 1]
                       /\ ring' = evt
    /\ UNCHANGED <<statsMap, reclaimCount, probeHits, links, configMap, notRing>>

\* The rest of trace_d_alloc_path: the fields are filled in and the record
\* is submitted.
trace_d_alloc_path_submit ==
    /\ \E k \in CPUs :
          /\ cpu[k].pc = "fill"
          /\ ring' = bpf_ringbuf_submit(ring, k)
          /\ tracer' = [tracer EXCEPT !.counted = Returned(cpu[k])]
          /\ cpu' = [cpu EXCEPT ![k] = CpuIdle]
    /\ UNCHANGED <<statsMap, reclaimCount, probeHits, links, configMap, notRing>>

\* Consumer.Start: rd.Read() returns the oldest record once it is committed.
\* The record has the size of rawTraceEvent, so parseRawEvent does not fail
\* and c.dropped stays as it is.
ConsumerReads ==
    /\ Len(ring) > 0 /\ ~ring[1].busy
    /\ ring' = Tail(ring)
    /\ tracer' = [tracer EXCEPT !.read = @ + 1]
    /\ UNCHANGED <<kernVars, links, configMap, notRing>>

\* The d_alloc hits of cgroup c that have counted and not yet returned.
InFlight(c) ==
    Cardinality({k \in CPUs : /\ cpu[k].pc \in {"path", "fill"}
                              /\ cpu[k].stats = c})

\* A reservation fails in this step.
ReserveFails == tracer'.failed = tracer.failed + 1

\* C14: when the ring buffer has no room the path-capture program returns at
\* once (its CPU is idle after the step) and leaves the ring and the
\* counters as they are; every d_alloc hit of a cgroup with a record has
\* added one to alloc whatever became of its reservation; and the records
\* read by userspace plus those still in the ring are the successful
\* reservations, so never more are read than were reserved.
C14_ReserveFailureDropsOnlyEvent ==
    /\ [](/\ tracer.read + Len(ring) = tracer.reserved
          /\ tracer.read <= tracer.reserved
          /\ \A c \in CgroupIDs :
                statsMap[c].alloc = tracer.base[c] + tracer.counted[c] + InFlight(c))
    /\ [][ReserveFails =>
            /\ ring' = ring /\ statsMap' = statsMap
            /\ \A k \in CPUs : cpu'[k] # cpu[k] => cpu'[k] = CpuIdle]_vars

\* A reservation has failed after another succeeded, the hit that lost its
\* event is counted, and userspace has read the one event.
C14_Witness ==
    /\ tracer.failed = 1 /\ tracer.reserved = 1 /\ tracer.read = 1
    /\ \E c \in CgroupIDs : tracer.counted[c] = 2 /\ statsMap[c].alloc = 2

\* What the kernel maps and the consumer expose: the statistics, the reclaim
\* count, the configuration, the ring, and the consumer's dropped count.
Observable == <<statsMap, reclaimCount, configMap, ring, tracer.dropped>>

\* C15: every failed reservation adds to a drop counter, so a step in which
\* a reservation fails changes something the program exposes.
C15_DropCounterIncremented ==
    [][ReserveFails => Observable' # Observable]_vars

-----------------------------------------------------------------------------
(* The userspace pattern filter of Consumer.Start: containsSubstring,      *)
(* contains and matchesAnyPattern.                                         *)

MaxPathChars  == 2   \* characters of a reconstructed path
MaxPatterns   == 2   \* entries of TraceConfig.PathPatterns
MaxPatternLen == 1   \* characters of one pattern

PathAlphabet == {"/", "a"}

StringsUpTo(n) == UNION {[1..k -> PathAlphabet] : k \in 0..n}

PatternLists == UNION {[1..k -> StringsUpTo(MaxPatternLen)] : k \in 0..MaxPatterns}

\* for i := 0; i <= len(s)-len(substr); i++ { if s[i:i+len(substr)] == substr ...
contains(s, substr) ==
    \E i \in 0..(Len(s) - Len(substr)) : SubSeq(s, i + 1, i + Len(substr)) = substr

containsSubstring(s, substr) ==
    Len(substr) > 0 /\ Len(s) >= Len(substr) /\ contains(s, substr)

matchesAnyPattern(path, patterns) ==
    \E i \in 1..Len(patterns) : containsSubstring(path, patterns[i])

\* An event has been decoded and its path rebuilt; the configuration holds
\* some pattern list.
FilterInit ==
    \E path \in StringsUpTo(MaxPathChars), patterns \in PatternLists :
        filt = [pc |-> "decoded", path |-> path, patterns |-> patterns]

FilterIdle == filt = 0

\* if len(PathPatterns) > 0 && !matchesAnyPattern(path, PathPatterns) { continue }
FilterDrops ==
    /\ filt.pc = "decoded"
    /\ Len(filt.patterns) > 0 /\ ~matchesAnyPattern(filt.path, filt.patterns)
    /\ filt' = [filt EXCEPT !.pc = "dropped"]
    /\ UNCHANGED notFilter

\* Otherwise the event goes on to c.writer.WriteEvent.
FilterPasses ==
    /\ filt.pc = "decoded"
    /\ ~(Len(filt.patterns) > 0 /\ ~matchesAnyPattern(filt.path, filt.patterns))
    /\ filt' = [filt EXCEPT !.pc = "written"]
    /\ UNCHANGED notFilter

\* C16: once the filter has decided, the event was handed to the writer if
\* and only if the pattern list is empty or the path contains one of the
\* patterns as a substring (strings.Contains; the empty pattern is a
\* substring of every path).
C16_WrittenIffPatternMatches ==
    filt.pc \in {"written", "dropped"} =>
        (filt.pc = "written" <=>
            \/ Len(filt.patterns) = 0
            \/ \E i \in 1..Len(filt.patterns) : Contains(filt.path, filt.patterns[i]))

-----------------------------------------------------------------------------
(* Consumer.SetConfig: internal/tracing/consumer.go.                       *)

MaxUpdates == 4   \* SetConfig calls per run

\* A variant that leaves bpfCfg at its zero value.
bpfTraceConfigZero(enabled) == 0

\* var bpfCfg bpfTraceConfig; if cfg.Enabled { bpfCfg.Enabled = 1 }
bpfTraceConfig(enabled) == IF enabled THEN 1 ELSE 0

\* NewConsumer: the configuration given to it, already in the kernel map.
ConfigInit ==
    /\ \E enabled \in BOOLEAN :
          /\ config = enabled
          /\ configMap = bpfTraceConfig(enabled)
    /\ setter = [pc |-> "idle", cfg |-> FALSE, bpfCfg |-> 0, calls |-> 0, applied |-> <<>>]
    /\ links = {} /\ ring = 0 /\ tracer = 0

ConfigIdle == config = 0 /\ setter = 0

\* SetConfig is called (one call at a time) and builds bpfCfg.
SetConfigBegin ==
    /\ setter.pc = "idle" /\ setter.calls < MaxUpdates
    /\ \E enabled \in BOOLEAN :
          setter' = [setter EXCEPT !.pc = "update", !.cfg = enabled,
                                   !.bpfCfg = bpfTraceConfig(enabled),
                                   !.calls = @ + 1]
    /\ UNCHANGED <<config, configMap, notConfig>>

\* c.configMap.Update(&key, &bpfCfg, ebpf.UpdateAny); on an error SetConfig
\* returns it.
SetConfigUpdate ==
    /\ setter.pc = "update"
    /\ \E err \in BOOLEAN :
          IF err
          THEN /\ setter' = [setter EXCEPT !.pc = "idle"]
               /\ configMap' = configMap
          ELSE /\ setter' = [setter EXCEPT !.pc = "store",
                                           !.applied = Append(@, setter.cfg)]
               /\ configMap' = setter.bpfCfg
    /\ UNCHANGED <<config, notConfig>>

\* c.mu.Lock(); c.config = cfg; c.mu.Unlock(); return nil
SetConfigStore ==
    /\ setter.pc = "store"
    /\ config' = setter.cfg
    /\ setter' = [setter EXCEPT !.pc = "idle"]
    /\ UNCHANGED <<configMap, notConfig>>

\* C17: after successful updates made one after another, the kernel entry
\* is 1 if the last of them had Enabled = true and 0 otherwise; so false
\* followed by true leaves it at 1.
C17_KernelEntryIsLastUpdate ==
    LET n == Len(setter.applied) IN
    /\ n > 0 => configMap = (IF setter.applied[n] THEN 1 ELSE 0)
    /\ (n >= 2 /\ ~setter.applied[n - 1] /\ setter.applied[n]) => configMap = 1

\* enabled=false then enabled=true were applied, and SetConfig has returned.
C17_Witness ==
    /\ setter.pc = "idle" /\ setter.applied = <<FALSE, TRUE>>
    /\ configMap = 1 /\ config = TRUE

----
(* SetConfig called from several HTTP handlers at once.  Here setter holds *)
(* one call per handler, and counts the map writes and the calls that      *)
(* returned nil.                                                           *)

ConfigHandlers == {"h1", "h2"}

IdleCall == [pc |-> "idle", cfg |-> FALSE, bpfCfg |-> 0]

\* NewConsumer: the configuration given to it, already in the kernel map.
SharedConfigInit ==
    /\ \E enabled \in BOOLEAN :
          /\ config = enabled
          /\ configMap = bpfTraceConfig(enabled)
    /\ setter = [call |-> [h \in ConfigHandlers |-> IdleCall],
                 calls |-> 0, writes |-> 0, succeeded |-> 0, failed |-> 0]
    /\ links = {} /\ ring = 0 /\ tracer = 0

\* A handler calls SetConfig, which builds bpfCfg.
HandlerSetConfigBegin ==
    /\ setter.calls < MaxUpdates
    /\ \E h \in ConfigHandlers, enabled \in BOOLEAN :
          /\ setter.call[h].pc = "idle"
          /\ setter' = [setter EXCEPT !.call[h] = [pc |-> "update", cfg |-> enabled,
                                                   bpfCfg |-> bpfTraceConfig(enabled)],
                                      !.calls = @ + 1]
    /\ UNCHANGED <<config, configMap, notConfig>>

\* c.configMap.Update(&key, &bpfCfg, ebpf.UpdateAny); on an error SetConfig
\* returns it.
HandlerSetConfigUpdate ==
    /\ \E h \in ConfigHandlers, err \in BOOLEAN :
          /\ setter.call[h].pc = "update"
          /\ IF err
             THEN /\ setter' = [setter EXCEPT !.call[h] = IdleCall, !.failed = @ + 1]
                  /\ configMap' = configMap
             ELSE /\ setter' = [setter EXCEPT !.call[h].pc = "store", !.writes = @ + 1]
                  /\ configMap' = setter.call[h].bpfCfg
    /\ UNCHANGED <<config, notConfig>>

\* c.mu.Lock(); c.config = cfg; c.mu.Unlock(); return nil
HandlerSetConfigStore ==
    /\ \E h \in ConfigHandlers :
          /\ setter.call[h].pc = "store"
          /\ config' = setter.call[h].cfg
          /\ setter' = [setter EXCEPT !.call[h] = IdleCall, !.succeeded = @ + 1]
    /\ UNCHANGED <<configMap, notConfig>>

\* C40: once every SetConfig call has returned, the kernel entry's enabled
\* value is that of the configuration GetConfig returns, and the entry was
\* written once per call that succeeded (a call whose map update failed
\* wrote nothing).
C40_KernelEntryMatchesConfig ==
    (\A h \in ConfigHandlers : setter.call[h].pc = "idle") =>
        /\ configMap = bpfTraceConfig(config)
        /\ setter.writes = setter.succeeded
        /\ setter.calls = setter.succeeded + setter.failed

-----------------------------------------------------------------------------
(* Startup: cmd/monitor/main.go, from the memlock limit to the HTTP server. *)

\* The order in which main attaches the probes.
AttachOrder == <<"d_alloc", PathProbe, "d_instantiate", "shrink_dcache_sb">>

\* A variant in which every attachment failure is fatal.
attachFailureAlwaysFatal(probe) == "fatal"

\* What main does when link.Kprobe fails: log.Fatalf for the counting
\* probes, a warning for the path-capture probe.
attachFailure(probe) == IF probe = PathProbe THEN "warning" ELSE "fatal"

\* log.Fatalf: os.Exit(1).  The process exits with status 1 and the
\* deferred calls of main do not run; the kernel detaches the probes with
\* the process.
Fatalf(cause) == [boot EXCEPT !.pc = "exited", !.exit = 1, !.cause = cause]

BootInit ==
    /\ boot = [pc |-> "load", next |-> 1, exit |-> 0, cause |-> "none", failed |-> {},
               deferred |-> <<>>, ran |-> {}]
    /\ links = {} /\ configMap = 0 /\ ring = <<>>
    /\ tracer = [reserved |-> 0, failed |-> 0, read |-> 0, dropped |-> 0,
                 base    |-> [c \in CgroupIDs |-> statsMap[c].alloc],
                 counted |-> [c \in CgroupIDs |-> 0]]

BootIdle == boot = 0

\* rlimit.RemoveMemlock and bpf.LoadObjects: either failure is fatal.
MainLoads ==
    /\ boot.pc = "load"
    /\ \E err \in BOOLEAN :
          /\ boot' = IF err THEN Fatalf("load")
                            ELSE [boot EXCEPT !.pc = "attach",
                                              !.deferred = <<"objs.Close">>]
    /\ UNCHANGED <<kernVars, ringVars, notBoot>>

\* The next link.Kprobe call of main.
MainAttaches ==
    /\ boot.pc = "attach"
    /\ LET probe == AttachOrder[boot.next]
           after == IF boot.next = Len(AttachOrder)
                    THEN [boot EXCEPT !.pc = "writer"]
                    ELSE [boot EXCEPT !.next = @ + 1]
       IN  \E err \in BOOLEAN :
             IF ~err
             THEN /\ links' = links \cup {probe}
                  /\ boot' = [after EXCEPT !.deferred = Append(@, probe)]
             ELSE IF attachFailure(probe) = "fatal"
             THEN /\ links' = {}
                  /\ boot' = [Fatalf(probe) EXCEPT !.failed = @ \cup {probe}]
             ELSE /\ links' = links
                  /\ boot' = [after EXCEPT !.failed = @ \cup {probe}]
    /\ UNCHANGED <<kernVars, configMap, ring, tracer, notBoot>>

\* tracing.NewTSVWriter: a failure is fatal.
MainCreatesWriter ==
    /\ boot.pc = "writer"
    /\ \E err \in BOOLEAN :
          IF err THEN boot' = Fatalf("writer") /\ links' = {}
                 ELSE boot' = [boot EXCEPT !.pc = "consumer"] /\ links' = links
    /\ UNCHANGED <<kernVars, configMap, ring, tracer, notBoot>>

\* tracing.NewConsumer pushes -trace-enabled to the kernel map; a failure is
\* fatal.  Then the consumer and the HTTP server are started.
MainCreatesConsumer ==
    /\ boot.pc = "consumer"
    /\ \E err \in BOOLEAN, traceEnabled \in BOOLEAN :
          IF err THEN /\ boot' = Fatalf("consumer") /\ links' = {}
                      /\ configMap' = configMap
                 ELSE /\ boot' = [boot EXCEPT !.pc = "serving"] /\ links' = links
                      /\ configMap' = bpfTraceConfig(traceEnabled)
    /\ UNCHANGED <<kernVars, ring, tracer, notBoot>>

\* The goroutine of server.ListenAndServe: any error but ErrServerClosed is
\* fatal.
ListenAndServeFails ==
    /\ boot.pc = "serving"
    /\ boot' = Fatalf("listen")
    /\ links' = {}
    /\ UNCHANGED <<kernVars, configMap, ring, tracer, notBoot>>

\* C18: a failure to attach the path-capture probe never ends the startup
\* (the process exits only for another cause, with status 1), and in a
\* session where it failed no trace event is ever reserved; a failure to
\* attach one of the three counting probes ends the startup with a non-zero
\* exit status; the HTTP server is reached only with the three counting
\* probes attached.
C18_OnlyCoreProbesAreFatal ==
    /\ boot.cause # PathProbe
    /\ boot.pc = "exited" <=> boot.exit # 0
    /\ PathProbe \in boot.failed => tracer.reserved = 0 /\ ring = <<>>
    /\ boot.failed \cap CoreProbes # {} => boot.pc = "exited" /\ boot.exit # 0
    /\ boot.pc = "serving" => CoreProbes \subseteq links

\* The path-capture probe failed to attach, the server is up with tracing
\* enabled in the configuration, and a d_alloc hit has been counted.
C18_Witness ==
    /\ boot.pc = "serving" /\ PathProbe \in boot.failed /\ configMap = 1
    /\ \E c \in CgroupIDs : statsMap[c].alloc > tracer.base[c]
    /\ \A k \in CPUs : cpu[k] = CpuIdle

\* Consumer.Start, started by main once the consumer exists, reads the ring.
ConsumerReadsWhileServing ==
    /\ boot.pc = "serving"
    /\ ConsumerReads
    /\ UNCHANGED boot

\* C27: the path-capture program reserves a record only in a run that read
\* the configuration entry as enabled; as long as the entry is 0, as it is
\* from the load of the programs, no record is reserved and none reaches
\* the consumer; and the first record is reserved only after main has
\* written the entry, although the probes are attached before that.
C27_ReserveOnlyWhenEnabled ==
    /\ [][tracer'.reserved # tracer.reserved => configMap = 1]_vars
    /\ [](configMap = 0 => (tracer.reserved = 0 /\ tracer.read = 0 /\ ring = <<>>))
    /\ [](tracer.reserved > 0 => boot.pc \in {"serving", "exited"})

\* With tracing enabled at startup, one d_alloc hit came before the entry
\* was written and left no record, and the record of a later one has been
\* read by the consumer.
C27_Witness ==
    /\ boot.pc = "serving" /\ configMap = 1
    /\ tracer.reserved = 1 /\ tracer.read = 1
    /\ \E c \in CgroupIDs : tracer.counted[c] = 2

\* C21: when a startup step fails fatally, the shutdown is carried out
\* before the process exits: every deferred Close registered so far (the
\* eBPF objects, the probes attached) has run.
C21_FatalExitRunsShutdown ==
    boot.pc = "exited" =>
        \A i \in 1..Len(boot.deferred) : boot.deferred[i] \in boot.ran

-----------------------------------------------------------------------------
(* Shutdown: the end of main (cmd/monitor/main.go), Collector.Start,        *)
(* Resolver.Start and Stop, Consumer.Start and Close, TSVWriter.Flush and   *)
(* Close.                                                                   *)

\* The goroutines that main and Consumer.Start have started.
Workers == {"poller", "refresher", "consumer", "flusher", "closer"}

ShutdownInit ==
    /\ mainPc = "wait"
    /\ stopCh = FALSE /\ rStopCh = FALSE /\ rdClosed = FALSE
    /\ workers = [x \in Workers |->
                    CASE x = "consumer" -> "read"
                      [] x = "closer"   -> "wait"
                      [] OTHER          -> "select"]
    /\ tsv = [closed |-> FALSE, late |-> {}, blockedAtStop |-> FALSE,
              buffered |-> FALSE]

ShutdownIdle ==
    /\ mainPc = 0 /\ stopCh = 0 /\ rStopCh = 0 /\ workers = 0
    /\ rdClosed = 0 /\ tsv = 0

\* When main returns the process exits and its goroutines run no more.
Alive == mainPc # "exited"

\* A call on the TSVWriter: what is remembered of it when the writer is
\* already closed, and whether the bufio.Writer holds records that are not
\* in the file.  WriteEvent puts its line into the buffer (the buffer takes
\* it also when the file is closed, and WriteEvent returns nil); Flush
\* writes the buffer to the file, which fails on a closed file and leaves
\* the buffer as it is.
WriterCall(call) ==
    LET t == IF tsv.closed THEN [tsv EXCEPT !.late = @ \cup {call}] ELSE tsv
    IN  IF call = "WriteEvent" THEN [t EXCEPT !.buffered = TRUE]
        ELSE IF tsv.closed THEN t
        ELSE [t EXCEPT !.buffered = FALSE]

\* A variant of the closer goroutine that returns without closing the reader.
closerLeavesReader(closed) == closed

\* <-stopCh; rd.Close()
closerClosesReader(closed) == TRUE

\* sig := <-sigCh: SIGINT or SIGTERM arrives.
MainReceivesSignal ==
    /\ mainPc = "wait"
    /\ mainPc' = "close_stop"
    /\ UNCHANGED <<stopCh, rStopCh, workers, rdClosed, tsv, notShutdown>>

\* close(stopCh)
MainClosesStop ==
    /\ mainPc = "close_stop"
    /\ stopCh' = TRUE
    /\ tsv' = [tsv EXCEPT !.blockedAtStop = (workers["consumer"] = "read")]
    /\ mainPc' = "close_consumer"
    /\ UNCHANGED <<rStopCh, workers, rdClosed, notShutdown>>

\* consumer.Close(): TSVWriter.Close flushes the buffer and closes the file.
MainClosesConsumer ==
    /\ mainPc = "close_consumer"
    /\ tsv' = [tsv EXCEPT !.closed = TRUE, !.buffered = FALSE]
    /\ mainPc' = "close_server"
    /\ UNCHANGED <<stopCh, rStopCh, workers, rdClosed, notShutdown>>

\* server.Close()
MainClosesServer ==
    /\ mainPc = "close_server"
    /\ mainPc' = "defers"
    /\ UNCHANGED <<stopCh, rStopCh, workers, rdClosed, tsv, notShutdown>>

\* The deferred calls, last first: resolver.Stop() closes Resolver.stopCh,
\* then the probe links and the eBPF objects are closed.
MainDefers ==
    /\ mainPc = "defers"
    /\ rStopCh' = TRUE
    /\ mainPc' = "return"
    /\ UNCHANGED <<stopCh, workers, rdClosed, tsv, notShutdown>>

\* main returns: the process exits.
MainReturns ==
    /\ mainPc = "return"
    /\ mainPc' = "exited"
    /\ UNCHANGED <<stopCh, rStopCh, workers, rdClosed, tsv, notShutdown>>

\* Collector.Start: case <-ticker.C: c.Poll()
PollerTicks ==
    /\ Alive /\ workers["poller"] = "select"
    /\ workers' = [workers EXCEPT !["poller"] = "poll"]
    /\ UNCHANGED <<mainPc, stopCh, rStopCh, rdClosed, tsv, notShutdown>>

\* c.Poll() returns.
PollerPolled ==
    /\ Alive /\ workers["poller"] = "poll"
    /\ workers' = [workers EXCEPT !["poller"] = "select"]
    /\ UNCHANGED <<mainPc, stopCh, rStopCh, rdClosed, tsv, notShutdown>>

\* Collector.Start: case <-stopCh: return
PollerStops ==
    /\ Alive /\ workers["poller"] = "select" /\ stopCh
    /\ workers' = [workers EXCEPT !["poller"] = "done"]
    /\ UNCHANGED <<mainPc, stopCh, rStopCh, rdClosed, tsv, notShutdown>>

\* Resolver.Start: case <-ticker.C: r.refresh()
RefresherTicks ==
    /\ Alive /\ workers["refresher"] = "select"
    /\ workers' = [workers EXCEPT !["refresher"] = "refresh"]
    /\ UNCHANGED <<mainPc, stopCh, rStopCh, rdClosed, tsv, notShutdown>>

\* r.refresh() returns.
RefresherRefreshed ==
    /\ Alive /\ workers["refresher"] = "refresh"
    /\ workers' = [workers EXCEPT !["refresher"] = "select"]
    /\ UNCHANGED <<mainPc, stopCh, rStopCh, rdClosed, tsv, notShutdown>>

\* Resolver.Start: case <-r.stopCh: return
RefresherStops ==
    /\ Alive /\ workers["refresher"] = "select" /\ rStopCh
    /\ workers' = [workers EXCEPT !["refresher"] = "done"]
    /\ UNCHANGED <<mainPc, stopCh, rStopCh, rdClosed, tsv, notShutdown>>

\* The flusher goroutine of Consumer.Start: case <-flushTicker.C, until the
\* consumer's deferred flushTicker.Stop().
FlusherWakes ==
    /\ Alive /\ workers["flusher"] = "select" /\ workers["consumer"] # "done"
    /\ workers' = [workers EXCEPT !["flusher"] = "flush"]
    /\ UNCHANGED <<mainPc, stopCh, rStopCh, rdClosed, tsv, notShutdown>>

\* c.writer.Flush()
FlusherFlushes ==
    /\ Alive /\ workers["flusher"] = "flush"
    /\ tsv' = WriterCall("Flush")
    /\ workers' = [workers EXCEPT !["flusher"] = "select"]
    /\ UNCHANGED <<mainPc, stopCh, rStopCh, rdClosed, notShutdown>>

\* The flusher goroutine: case <-stopCh: return
FlusherStops ==
    /\ Alive /\ workers["flusher"] = "select" /\ stopCh
    /\ workers' = [workers EXCEPT !["flusher"] = "done"]
    /\ UNCHANGED <<mainPc, stopCh, rStopCh, rdClosed, tsv, notShutdown>>

\* The closer goroutine of Consumer.Start.
CloserCloses ==
    /\ Alive /\ workers["closer"] = "wait" /\ stopCh
    /\ rdClosed' = closerClosesReader(rdClosed)
    /\ workers' = [workers EXCEPT !["closer"] = "done"]
    /\ UNCHANGED <<mainPc, stopCh, rStopCh, tsv, notShutdown>>

\* rd.Read() returns a record of an open reader; the event passes the
\* decoder and the filter.
ConsumerReadsRecord ==
    /\ Alive /\ workers["consumer"] = "read" /\ ~rdClosed
    /\ workers' = [workers EXCEPT !["consumer"] = "write"]
    /\ UNCHANGED <<mainPc, stopCh, rStopCh, rdClosed, tsv, notShutdown>>

\* c.writer.WriteEvent(traceEvt), then the next rd.Read().
ConsumerHandsOver ==
    /\ Alive /\ workers["consumer"] = "write"
    /\ tsv' = WriterCall("WriteEvent")
    /\ workers' = [workers EXCEPT !["consumer"] = "read"]
    /\ UNCHANGED <<mainPc, stopCh, rStopCh, rdClosed, notShutdown>>

\* rd.Read() on a closed reader returns an error: Consumer.Start returns on
\* either branch of its select, and its deferred rd.Close() runs.
ConsumerReadClosed ==
    /\ Alive /\ workers["consumer"] = "read" /\ rdClosed
    /\ workers' = [workers EXCEPT !["consumer"] = "done"]
    /\ UNCHANGED <<mainPc, stopCh, rStopCh, rdClosed, tsv, notShutdown>>

\* rd.Read() fails on an open reader: Consumer.Start logs the error and
\* returns, and its deferred rd.Close() runs.
ConsumerReadFails ==
    /\ Alive /\ workers["consumer"] = "read" /\ ~rdClosed
    /\ rdClosed' = TRUE
    /\ workers' = [workers EXCEPT !["consumer"] = "done"]
    /\ UNCHANGED <<mainPc, stopCh, rStopCh, tsv, notShutdown>>

\* C19: main closes the writer only after every worker has returned, and
\* no WriteEvent or Flush is made on the writer once it is closed.
C19_WriterClosedAfterWorkers ==
    /\ tsv.closed => \A x \in Workers : workers[x] = "done"
    /\ tsv.late = {}

\* C32: every record WriteEvent accepted reaches the trace file: whenever
\* the writer's buffer holds records, the flusher, a rotation or the final
\* Close writes them out.
C32_AcceptedRecordsReachDisk ==
    tsv.buffered ~> ~tsv.buffered

AllReturned == \A x \in Workers : workers[x] = "done"

\* C20: once stopCh is closed, every worker returns, unless the process has
\* exited before, which ends them all.
C20_WorkersTerminate ==
    stopCh ~> (AllReturned \/ ~Alive)

\* The stop channel was closed while the consumer was blocked in rd.Read(),
\* and every worker has returned while the process is still there.
C20_Witness ==
    /\ stopCh /\ tsv.blockedAtStop /\ AllReturned /\ Alive

-----------------------------------------------------------------------------
(* Enrichment: what Resolver.refresh caches for a process's cgroup path    *)
(* (parsePodFromCgroupPath) and what Consumer.Start copies into the event. *)

\* .../kubepods-pod<UID>.slice/crio-<CID>.scope: the systemd form under the
\* CRI-O runtime.
CrioPath(uid, cid) ==
    <<"/", "k", "u", "b", "e", "p", "o", "d", "s", ".", "s", "l", "i", "c", "e", "/",
      "k", "u", "b", "e", "p", "o", "d", "s", "-", "p", "o", "d">>
        \o uid \o <<".", "s", "l", "i", "c", "e", "/", "c", "r", "i", "o", "-">>
        \o cid \o strScope

\* /kubepods/burstable/pod<UID>: the cgroup of the pod itself.
PodLevelPath(uid) ==
    <<"/", "k", "u", "b", "e", "p", "o", "d", "s", "/", "b", "u", "r", "s", "t",
      "a", "b", "l", "e", "/", "p", "o", "d">> \o uid

\* /system.slice: a process that belongs to no pod.
HostPath == <<"/", "s", "y", "s", "t", "e", "m", ".", "s", "l", "i", "c", "e">>

\* /kubepods.slice/kubepods-burstable.slice: the cgroup of a QoS class, above
\* the pods.
QosPath ==
    <<"/", "k", "u", "b", "e", "p", "o", "d", "s", ".", "s", "l", "i", "c", "e", "/",
      "k", "u", "b", "e", "p", "o", "d", "s", "-", "b", "u", "r", "s", "t", "a", "b",
      "l", "e", ".", "s", "l", "i", "c", "e">>

PathForms == {"systemd", "cgroupfs", "crio", "podlevel", "qos", "host"}

CgroupPathOf(form, uid, cid) ==
    CASE form = "systemd"  -> SystemdPath(uid, cid)
      [] form = "cgroupfs" -> CgroupfsPath(uid, cid)
      [] form = "crio"     -> CrioPath(uid, cid)
      [] form = "podlevel" -> PodLevelPath(uid)
      [] form = "qos"      -> QosPath
      [] OTHER             -> HostPath

\* A task of some cgroup has produced an event; the resolver has not
\* scanned the task yet.
EnrichInit ==
    \E form \in PathForms, uid \in UIDs, cid \in CIDs :
        enrich = [pc |-> "unscanned", form |-> form, uid |-> uid,
                  cgPath |-> CgroupPathOf(form, uid, cid),
                  info |-> NilInfo, Pod |-> <<>>, Container |-> <<>>]

EnrichIdle == enrich = 0

\* refresh: info := r.parsePodFromCgroupPath(cgDir); a nil info is not cached.
RefreshCaches ==
    /\ enrich.pc = "unscanned"
    /\ enrich' = [enrich EXCEPT !.pc = "scanned",
                                !.info = parsePodFromCgroupPath(enrich.cgPath)]
    /\ UNCHANGED notEnrich

\* Consumer.Start: info := c.resolver.Resolve(evt.CgroupID); the labels are
\* copied when info is not nil.  The event may come before the scan or after.
ConsumerEnriches ==
    /\ enrich.pc \in {"unscanned", "scanned"}
    /\ enrich' = [enrich EXCEPT
                     !.pc = "enriched",
                     !.Pod = IF enrich.info.ok THEN enrich.info.Pod ELSE <<>>,
                     !.Container = IF enrich.info.ok THEN enrich.info.Container ELSE <<>>]
    /\ UNCHANGED notEnrich

\* C31: the scan records an identity only for a path with a kubepods
\* segment and a pod<uid> segment, and the pod UID it records is the text
\* after "pod" in that segment; for a path without a kubepods segment or
\* without a pod<uid> segment it records nothing.
C31_IdentityOnlyFromPodSegment ==
    enrich.pc = "scanned" =>
        IF enrich.form \in {"qos", "host"}
        THEN ~enrich.info.ok
        ELSE enrich.info.ok /\ enrich.info.podUID = enrich.uid

\* C23: an enriched event has pod and container both non-empty or both
\* empty.
C23_PodAndContainerTogether ==
    enrich.pc = "enriched" => (enrich.Pod = <<>> <=> enrich.Container = <<>>)

-----------------------------------------------------------------------------
(* The tracing HTTP API: Handler.handleTraces and Handler.handleConfig     *)
(* (internal/tracing/handler.go, quoted in README.md).                     *)

MaxRequests == 2   \* requests served per run
MaxBodyLen  == 2   \* lexical pieces of a request body

Methods == {"GET", "PUT", "POST", "DELETE"}

\* The pieces a request body is made of: white space, the two objects a
\* TraceConfig is sent as, and a byte that starts no JSON value.
objTrue  == "{\"enabled\":true}"
objFalse == "{\"enabled\":false}"
Space    == " "
Junk     == "x"

BodyPieces == {Space, objTrue, objFalse, Junk}

Bodies == UNION {[1..k -> BodyPieces] : k \in 0..MaxBodyLen}

\* The body is one JSON document: one value, with white space around it at
\* most.
ValidJSON(body) ==
    /\ Cardinality({i \in 1..Len(body) : body[i] \in {objTrue, objFalse}}) = 1
    /\ \A i \in 1..Len(body) : body[i] # Junk

\* json.NewDecoder(r.Body).Decode(&cfg): white space is skipped and the next
\* value is read up to its closing brace; what follows it stays unread.  An
\* empty input is io.EOF, a byte that starts no value a syntax error.
Decode(body) ==
    LET starts == {i \in 1..Len(body) : body[i] # Space} IN
    IF starts = {} THEN [err |-> TRUE, cfg |-> FALSE]
    ELSE LET i == CHOOSE k \in starts : \A j \in starts : k <= j IN
         IF body[i] = Junk THEN [err |-> TRUE, cfg |-> FALSE]
         ELSE [err |-> FALSE, cfg |-> (body[i] = objTrue)]

HttpInit ==
    http = [served |-> 0, path |-> "", method |-> "", body |-> <<>>,
            updateFailed |-> FALSE, status |-> 0, before |-> FALSE]

HttpIdle == http = 0

Answer(path, method, body, failed, status) ==
    [served |-> http.served + 1, path |-> path, method |-> method,
     body |-> body, updateFailed |-> failed, status |-> status,
     before |-> config]

\* handleTraces: anything but GET is answered 405; a GET is answered with
\* the events of the ring of recent events.
handleTraces ==
    /\ http.served < MaxRequests
    /\ \E method \in Methods, body \in Bodies :
          http' = Answer("/traces", method, body, FALSE,
                         IF method # "GET" THEN 405 ELSE 200)
    /\ UNCHANGED <<config, configMap, notHttp>>

\* handleConfig, with the SetConfig it calls: GET answers the configuration;
\* PUT decodes the body (400 on an error), updates the kernel map (500 on an
\* error) and then stores the configuration; any other method is 405.
handleConfig ==
    /\ http.served < MaxRequests
    /\ \E method \in Methods, body \in Bodies, updateErr \in BOOLEAN :
          LET d == Decode(body) IN
          CASE method = "GET" ->
                 /\ http' = Answer("/traces/config", method, body, FALSE, 200)
                 /\ UNCHANGED <<config, configMap>>
            [] method = "PUT" /\ d.err ->
                 /\ http' = Answer("/traces/config", method, body, FALSE, 400)
                 /\ UNCHANGED <<config, configMap>>
            [] method = "PUT" /\ ~d.err /\ updateErr ->
                 /\ http' = Answer("/traces/config", method, body, TRUE, 500)
                 /\ UNCHANGED <<config, configMap>>
            [] method = "PUT" /\ ~d.err /\ ~updateErr ->
                 /\ http' = Answer("/traces/config", method, body, FALSE, 200)
                 /\ configMap' = bpfTraceConfig(d.cfg)
                 /\ config' = d.cfg
            [] OTHER ->
                 /\ http' = Answer("/traces/config", method, body, FALSE, 405)
                 /\ UNCHANGED <<config, configMap>>
    /\ UNCHANGED notHttp

\* C24: a request to /traces or /traces/config with a method the handler
\* does not allow is answered 405, a PUT /traces/config whose body is not
\* valid JSON is answered 400, a PUT whose kernel map update fails is
\* answered 500, and after any of these answers the configuration is what
\* it was before the request.
C24_ErrorAnswersLeaveConfig ==
    http.served > 0 =>
        /\ (http.path = "/traces" /\ http.method # "GET") => http.status = 405
        /\ (http.path = "/traces/config" /\ http.method \notin {"GET", "PUT"})
              => http.status = 405
        /\ (http.path = "/traces/config" /\ http.method = "PUT"
              /\ ~ValidJSON(http.body)) => http.status = 400
        /\ http.updateFailed => http.status = 500
        /\ http.status \in {400, 405, 500} => config = http.before

-----------------------------------------------------------------------------
(* The walk of trace_d_alloc_path (internal/ebpf/dentry.c) up the dentry   *)
(* tree, and the path the consumer builds from the event it submits.       *)

MaxChain == 9   \* longest chain of ancestors, from the parent to the top

\* The ancestors of the new dentry are numbered 1 (the parent) to len (the
\* top of the tree); 0 is the null pointer.  The d_parent of the top is
\* the top itself (IS_ROOT) or null.
dParent(chain, d) ==
    IF d < chain.len THEN d + 1
    ELSE IF chain.top = "self" THEN d ELSE 0

\* The names of the explored trees: one or two letters, or longer than a
\* slot of the event holds; the top is named "/".
LeafNames == {<<"a">>, <<"b">>, [i \in 1..NameLen |-> "a"]}

dName(chain, d) ==
    IF d = chain.len THEN <<"/">>
    ELSE IF chain.longNames THEN [i \in 1..NameLen |-> "b"] ELSE <<"b">>

\* bpf_probe_read_kernel_str(dst, MAX_NAME_LEN, src): at most size - 1 bytes
\* and a NUL; the bytes behind the NUL keep what the ring held (junk).
probeReadStr(name, junk) ==
    LET n == Min(Len(name), NameLen - 1)
    IN  [i \in 1..NameLen |-> IF i <= n THEN name[i]
                              ELSE IF i = n + 1 THEN NUL ELSE junk]

\* np = BPF_CORE_READ(..., name) for names[k]: null at the level nullAt, if
\* that is one of the levels 0..7.
namePtrNull(chain, k) == chain.nullAt = k

\* A variant of the root test that misses a dentry that is its own parent.
atRootNullOnly(next, d) == next = 0

\* if (!d2 || d2 == parent) goto reached_root;
atRoot(next, d) == next = 0 \/ next = d

\* The unrolled steps names[k], k = 2..7, and the look beyond names[7]: d is
\* the dentry whose name is in names[k - 1].
RECURSIVE walkUp(_, _, _, _, _)
walkUp(chain, junk, d, k, evt) ==
    LET next == dParent(chain, d)
    IN  IF atRoot(next, d) THEN [evt EXCEPT !.root = TRUE]
        ELSE IF k >= MAX_PATH_DEPTH THEN evt
        ELSE walkUp(chain, junk, next, k + 1,
                    IF namePtrNull(chain, k) THEN evt
                    ELSE [evt EXCEPT !.depth = k + 1,
                                     !.written = @ \cup {k},
                                     !.names[k] = probeReadStr(dName(chain, next), junk)])

\* trace_d_alloc_path from the reserved record to bpf_ringbuf_submit.
walkEvent(chain, leaf, junk) ==
    LET d0 == IF namePtrNull(chain, 0) THEN 0 ELSE 1
        d1 == IF namePtrNull(chain, 1) THEN d0 ELSE 2
        e0 == [depth |-> d1, root |-> FALSE,
               written |-> {k \in {0, 1} : ~namePtrNull(chain, k)},
               names |-> [i \in 0..(MAX_PATH_DEPTH - 1) |->
                            IF i = 0 /\ ~namePtrNull(chain, 0)
                            THEN probeReadStr(leaf, junk)
                            ELSE IF i = 1 /\ ~namePtrNull(chain, 1)
                            THEN probeReadStr(dName(chain, 1), junk)
                            ELSE [j \in 1..NameLen |-> junk]]]
        e  == walkUp(chain, junk, 1, 2, e0)
    IN  [Depth |-> DepthWord(e.depth, e.root), Names |-> e.names,
         Written |-> e.written]

NoEvent == [Depth |-> DepthWord(0, FALSE), Names |-> <<>>, Written |-> {}]

\* The levels whose name pointer may read as null.
NullLevels == 0..(MAX_PATH_DEPTH - 1)

\* A d_alloc call: the tree above the new dentry, the name asked for, the
\* tracing switch, and what the ring memory held before.
\* The name pointers are all valid (nullAt names no level).
WalkInit ==
    \E len \in 0..MaxChain, top \in {"self", "null"}, long \in BOOLEAN,
       leaf \in LeafNames, junk \in Bytes, enabled \in BOOLEAN :
        walk = [pc |-> "hit", enabled |-> enabled,
                chain |-> [len |-> len, top |-> top, longNames |-> long,
                           nullAt |-> MAX_PATH_DEPTH],
                leaf |-> leaf, junk |-> junk, evt |-> NoEvent, path |-> <<>>,
                room |-> TRUE, reserved |-> 0, submits |-> 0]

\* A d_alloc call in which the name pointer of one level may read as null
\* and the ring may have no room.
WalkNullInit ==
    \E len \in 0..MaxChain, top \in {"self", "null"},
       nullAt \in NullLevels \cup {MAX_PATH_DEPTH},
       leaf \in LeafNames, junk \in Bytes, room \in BOOLEAN :
        walk = [pc |-> "hit", enabled |-> TRUE,
                chain |-> [len |-> len, top |-> top, longNames |-> FALSE,
                           nullAt |-> nullAt],
                leaf |-> leaf, junk |-> junk, evt |-> NoEvent, path |-> <<>>,
                room |-> room, reserved |-> 0, submits |-> 0]

WalkIdle == walk = 0

\* The label the walk leaves by: reached_root, or submit when it was cut
\* short after names[7].
exitLabel(evt) == IF reachedRoot(evt) THEN "reached_root" ELSE "submit"

\* A variant in which reached_root returns instead of falling through.
submitsFromSubmitOnly(label) == IF label = "submit" THEN 1 ELSE 0

\* The calls of bpf_ringbuf_submit from a label to the return: reached_root
\* sets the flag and falls through to submit.
submitsFrom(label) == IF label \in {"reached_root", "submit"} THEN 1 ELSE 0

\* The probe runs: it returns at once when tracing is off, when the parent is
\* null or when the ring has no room, and otherwise fills the reserved
\* record and leaves by one of its two labels.
trace_d_alloc_walk ==
    /\ walk.pc = "hit"
    /\ walk' = IF ~walk.enabled \/ walk.chain.len = 0 \/ ~walk.room
               THEN [walk EXCEPT !.pc = "returned"]
               ELSE LET evt == walkEvent(walk.chain, walk.leaf, walk.junk)
                        n   == submitsFrom(exitLabel(evt))
                    IN  [walk EXCEPT !.pc = IF n > 0 THEN "submitted" ELSE "returned",
                                     !.evt = evt, !.reserved = 1, !.submits = n]
    /\ UNCHANGED notWalk

\* Consumer.Start: path := buildPath(evt).
ConsumerBuildsPath ==
    /\ walk.pc = "submitted"
    /\ walk' = [walk EXCEPT !.pc = "built", !.path = buildPath(walk.evt)]
    /\ UNCHANGED notWalk

\* The walk finds the top of the tree among the parent and the six
\* dentries above it, whose names fill names[1..7].
RootWithinBudget == walk.chain.len <= MAX_PATH_DEPTH - 1

\* C26: the event of a d_alloc hit carries the root flag if and only if the
\* walk from the parent finds, within the 8 components it may capture, a
\* dentry whose parent is null or itself; on a longer chain the event has 8
\* components and no root flag, and the path built from it does not begin
\* with "/".
C26_RootFlagIffRootWithinBudget ==
    walk.pc \in {"submitted", "built"} =>
        /\ reachedRoot(walk.evt) <=> RootWithinBudget
        /\ ~RootWithinBudget =>
              /\ clampedDepth(walk.evt) = MAX_PATH_DEPTH
              /\ walk.pc = "built" => (walk.path # <<>> /\ walk.path[1] # "/")

\* A path has been built for a file whose chain of ancestors is longer than
\* the budget, below a top that is its own parent.
C26_Witness ==
    /\ walk.pc = "built" /\ walk.chain.len = MAX_PATH_DEPTH
    /\ walk.chain.top = "self" /\ Len(walk.path) > MAX_PATH_DEPTH

\* C34: in every submitted event, each names[i] with i below the component
\* count was written by the probe in that invocation, also when the name
\* pointer of some level read as null.
C34_CountedNamesWereWritten ==
    walk.pc \in {"submitted", "built"} =>
        \A i \in 0..(clampedDepth(walk.evt) - 1) : i \in walk.evt.Written

----
(* The record as the probe lays it out and as parseRawEvent reads it. *)

FstypeLen == 16   \* Fstype [16]byte of rawTraceEvent

\* struct dentry_trace_event of dentry.c: the fields and their sizes in bytes
\* (every field is aligned as it stands, so there is no padding).
dentry_trace_event ==
    <<[name |-> "timestamp", size |-> 8], [name |-> "cgroup_id", size |-> 8],
      [name |-> "operation", size |-> 4], [name |-> "depth", size |-> 4],
      [name |-> "names", size |-> MAX_PATH_DEPTH * NameLen]>>

\* type rawTraceEvent struct: what binary.Read fills, field after field.
rawTraceEvent ==
    <<[name |-> "timestamp", size |-> 8], [name |-> "cgroup_id", size |-> 8],
      [name |-> "operation", size |-> 4], [name |-> "depth", size |-> 4],
      [name |-> "names", size |-> MAX_PATH_DEPTH * NameLen],
      [name |-> "fstype", size |-> FstypeLen]>>

\* The offset of field i of a layout, and the size of the whole.
RECURSIVE offsetOf(_, _)
offsetOf(layout, i) ==
    IF i <= 1 THEN 0 ELSE offsetOf(layout, i - 1) + layout[i - 1].size

sizeOf(layout) == offsetOf(layout, Len(layout) + 1)

\* binary.Read(bytes.NewReader(data), binary.LittleEndian, &evt): it reads
\* binary.Size(evt) bytes with io.ReadFull and fails on a shorter input.
binaryRead(dataLen, layout) == dataLen < sizeOf(layout)

\* bpf_ringbuf_reserve(&trace_events, sizeof(struct dentry_trace_event), 0):
\* the length of record.RawSample.
RawSampleLen == sizeOf(dentry_trace_event)

\* The fields of the probe's record lie where parseRawEvent reads them.
SameOffsets ==
    \A i \in 1..Len(dentry_trace_event) :
        /\ i <= Len(rawTraceEvent)
        /\ rawTraceEvent[i].name = dentry_trace_event[i].name
        /\ offsetOf(rawTraceEvent, i) = offsetOf(dentry_trace_event, i)

\* Consumer.Start: evt, err := parseRawEvent(record.RawSample); on an error
\* the loop goes on to the next record.
ConsumerDecodes ==
    /\ walk.pc = "submitted"
    /\ walk' = [walk EXCEPT !.pc = IF binaryRead(RawSampleLen, rawTraceEvent)
                                   THEN "discarded" ELSE "decoded"]
    /\ UNCHANGED notWalk

\* C36: every record the path probe submits is decoded: it is at least as
\* long as the layout parseRawEvent reads, the fields are at the same
\* offsets, and no submitted event is discarded at the decode step.
C36_SubmittedRecordsDecode ==
    walk.pc \in {"decoded", "discarded"} =>
        /\ RawSampleLen >= sizeOf(rawTraceEvent)
        /\ SameOffsets
        /\ walk.pc = "decoded"

\* C35: when the probe has returned, the record it reserved (if any) has
\* been submitted exactly once, whichever way the walk ended.
C35_ReservedSubmittedOnce ==
    walk.pc # "hit" => walk.submits = walk.reserved

\* The walk skipped a null name pointer and then reached the root above
\* the parent; its one record was submitted.
C35_Witness ==
    /\ walk.pc = "submitted" /\ walk.reserved = 1 /\ walk.submits = 1
    /\ walk.chain.nullAt \in 2..3 /\ walk.chain.len = 4
    /\ reachedRoot(walk.evt)

-----------------------------------------------------------------------------
(* The in-memory window of internal/tracing/consumer.go: the circular      *)
(* buffer, GetEvents, and the fan-out to the subscribers of the stream.    *)

MaxBufSize  == 2   \* largest bufSize given to NewConsumer
MaxAccepted == 3   \* events accepted per run of the window
MaxFanned   == 2   \* events accepted per run with subscribers
MaxSubs     == 2   \* Subscribe calls per run
SubChanCap  == 1   \* capacity of a subscriber's channel (handleStream asks for 64)

\* The TraceEvent of the n-th accepted event, of one of the pods given.
FanEvents(n, pods) ==
    {[Timestamp |-> n, Pod |-> pod, Path |-> <<"a">>] : pod \in pods}

\* The zero TraceEvent that make([]TraceEvent, bufSize) fills the buffer with.
ZeroEvent == [Timestamp |-> 0, Pod |-> <<>>, Path |-> <<>>]

\* The filters of the explored requests; Since = 0 is the zero time.
EmptyFilter == [Pod |-> <<>>, PathSubstring |-> <<>>, Since |-> 0, Limit |-> 0]
Filters ==
    {EmptyFilter, [EmptyFilter EXCEPT !.Pod = <<"p">>],
     [EmptyFilter EXCEPT !.Limit = 1], [EmptyFilter EXCEPT !.Since = 2]}

\* A channel that was never made, and make(chan TraceEvent, bufSize).
\* got: the event of the fan-out under way was queued on it.
NoChan == [state |-> "none", cap |-> 0, buf |-> <<>>, got |-> FALSE]
makeChan(cap) == [state |-> "open", cap |-> cap, buf |-> <<>>, got |-> FALSE]

SubIDs == 0..(MaxSubs - 1)

\* NewConsumer(..., bufSize): an empty window and no subscriber.  The run
\* accepts up to most events, of the pods given.
NewConsumer(bufSize, most, pods) ==
        fan = [bufSize |-> bufSize, buffer |-> [i \in 0..(bufSize - 1) |-> ZeroEvent],
               most |-> most, pods |-> pods,
               head |-> 0, count |-> 0, dropped |-> 0, accepted |-> <<>>,
               resp |-> [filter |-> EmptyFilter, Events |-> <<>>, Total |-> 0,
                         BufferSize |-> 0, Dropped |-> 0, asked |-> FALSE],
               pc |-> "read", holder |-> "none", subs |-> {}, nextSub |-> 0,
               chans |-> [id \in SubIDs |-> NoChan],
               atLock |-> {}, visited |-> {}, roomy |-> {}, cur |-> 0,
               evt |-> ZeroEvent, panics |-> {}, noops |-> 0]

\* The runs that look at the window: events of two pods.
FanInit ==
    \E bufSize \in 1..MaxBufSize : NewConsumer(bufSize, MaxAccepted, {<<>>, <<"p">>})

\* The runs that look at the subscribers.
StreamInit ==
    \E bufSize \in 1..MaxBufSize : NewConsumer(bufSize, MaxFanned, {<<>>})

FanIdle == fan = 0

\* Consumer.Start: parseRawEvent failed; c.dropped++ and on to the next record.
ConsumerDropsRecord ==
    /\ fan.pc = "read" /\ fan.dropped < 1
    /\ fan' = [fan EXCEPT !.dropped = @ + 1]
    /\ UNCHANGED notFan

\* Consumer.Start: the event is put at head under c.mu, head moves on and
\* count grows up to bufSize.
ConsumerStores ==
    /\ fan.pc = "read" /\ Len(fan.accepted) < fan.most
    /\ \E traceEvt \in FanEvents(Len(fan.accepted) + 1, fan.pods) :
          fan' = [fan EXCEPT !.buffer[fan.head] = traceEvt,
                             !.head = (fan.head + 1) % fan.bufSize,
                             !.count = IF @ < fan.bufSize THEN @ + 1 ELSE @,
                             !.accepted = Append(@, traceEvt),
                             !.evt = traceEvt, !.pc = "lock",
                             !.atLock = {}, !.visited = {}, !.roomy = {},
                             !.chans = [id \in SubIDs |-> [@[id] EXCEPT !.got = FALSE]]]
    /\ UNCHANGED notFan

\* A variant of the first index read that always starts at 0.
oldestAtZero(f) == 0

\* GetEvents: start := 0; if c.count == c.bufSize { start = c.head }.
oldest(f) == IF f.count = f.bufSize THEN f.head ELSE 0

\* The filters of GetEvents on one event.
passes(evt, filter) ==
    /\ ~(filter.Pod # <<>> /\ evt.Pod # filter.Pod)
    /\ ~(filter.PathSubstring # <<>>
           /\ ~containsSubstring(evt.Path, filter.PathSubstring))
    /\ ~(filter.Since # 0 /\ evt.Timestamp < filter.Since)

\* The loop of GetEvents from its i-th round on, with the events found so far.
RECURSIVE collectEvents(_, _, _, _)
collectEvents(f, filter, i, events) ==
    IF i >= f.count THEN events
    ELSE LET evt == f.buffer[(oldest(f) + i) % f.bufSize]
         IN  IF ~passes(evt, filter) THEN collectEvents(f, filter, i + 1, events)
             ELSE LET more == Append(events, evt)
                  IN  IF filter.Limit > 0 /\ Len(more) >= filter.Limit THEN more
                      ELSE collectEvents(f, filter, i + 1, more)

\* GetEvents(filter), under c.mu.RLock.
GetEvents(f, filter) ==
    LET events == collectEvents(f, filter, 0, <<>>)
    IN  [filter |-> filter, Events |-> events, Total |-> Len(events),
         BufferSize |-> f.bufSize, Dropped |-> f.dropped, asked |-> TRUE]

\* A request for the window.
HandlerGetsEvents ==
    /\ \E filter \in Filters : fan' = [fan EXCEPT !.resp = GetEvents(fan, filter)]
    /\ UNCHANGED notFan

\* The fan-out: c.subMu.Lock().
FanOutLocks ==
    /\ fan.pc = "lock" /\ mutexFree(fan.holder)
    /\ fan' = [fan EXCEPT !.pc = "range", !.holder = "consumer", !.atLock = fan.subs]
    /\ UNCHANGED notFan

\* for _, ch := range c.subs: the next channel of the map.
FanOutPicks ==
    /\ fan.pc = "range"
    /\ \E id \in fan.subs \ fan.visited :
          fan' = [fan EXCEPT !.pc = "send", !.cur = id, !.visited = @ \cup {id}]
    /\ UNCHANGED notFan

\* A variant of the send that never delivers.
trySendNever(ch, evt) == ch

\* select { case ch <- evt: default: }: the event is queued if the channel has
\* room and dropped otherwise.
trySend(ch, evt) ==
    IF Len(ch.buf) < ch.cap
    THEN [ch EXCEPT !.buf = Append(@, evt), !.got = TRUE]
    ELSE ch

\* The body of the loop: the send on the channel picked; a send on a closed
\* channel panics.
FanOutSends ==
    /\ fan.pc = "send"
    /\ LET ch == fan.chans[fan.cur]
       IN  fan' = IF ch.state = "closed"
                  THEN [fan EXCEPT !.pc = "panic", !.panics = @ \cup {"send on closed channel"}]
                  ELSE [fan EXCEPT !.pc = "range",
                                   !.chans[fan.cur] = trySend(ch, fan.evt),
                                   !.roomy = IF Len(ch.buf) < ch.cap
                                             THEN @ \cup {fan.cur} ELSE @]
    /\ UNCHANGED notFan

\* The loop has been through the map: c.subMu.Unlock() and the next Read.
FanOutUnlocks ==
    /\ fan.pc = "range" /\ fan.subs \ fan.visited = {}
    /\ fan' = [fan EXCEPT !.pc = "read", !.holder = "none"]
    /\ UNCHANGED notFan

\* Subscribe(bufSize): a new channel under the next id.
Subscribe ==
    /\ fan.nextSub < MaxSubs /\ mutexFree(fan.holder)
    /\ LET id == fan.nextSub
       IN  fan' = [fan EXCEPT !.nextSub = @ + 1, !.subs = @ \cup {id},
                              !.chans[id] = makeChan(SubChanCap)]
    /\ UNCHANGED notFan

\* Unsubscribe(id), for an id that is subscribed, was removed before or was
\* never given out: the channel is removed and closed if it is in the map
\* (noops records that a call found nothing).
Unsubscribe ==
    /\ mutexFree(fan.holder)
    /\ \E id \in SubIDs :
          fan' = IF id \in fan.subs
                 THEN [fan EXCEPT !.subs = @ \ {id},
                                  !.chans[id].state = "closed",
                                  !.panics = IF fan.chans[id].state = "closed"
                                             THEN @ \cup {"close of closed channel"}
                                             ELSE @]
                 ELSE [fan EXCEPT !.noops = 1]
    /\ UNCHANGED notFan

\* handleStream: case evt, ok := <-ch.
StreamReceives ==
    /\ \E id \in SubIDs :
          /\ fan.chans[id].state # "none" /\ fan.chans[id].buf # <<>>
          /\ fan' = [fan EXCEPT !.chans[id].buf = Tail(@)]
    /\ UNCHANGED notFan

\* The last n elements of a sequence.
LastN(s, n) == SubSeq(s, Len(s) - n + 1, Len(s))

\* C37: after any accepted events, 0 <= head < bufSize, count is the smaller
\* of the number accepted and bufSize, and GetEvents with the empty filter
\* returns the last count accepted events, oldest first.
C37_WindowIsTheLastEvents ==
    /\ 0 <= fan.head /\ fan.head < fan.bufSize
    /\ fan.count = Min(Len(fan.accepted), fan.bufSize)
    /\ (fan.resp.asked /\ fan.resp.filter = EmptyFilter) =>
          \E n \in 0..Len(fan.accepted) :
              /\ Len(fan.resp.Events) = Min(n, fan.bufSize)
              /\ fan.resp.Events = LastN(SubSeq(fan.accepted, 1, n), Min(n, fan.bufSize))
    /\ GetEvents(fan, EmptyFilter).Events = LastN(fan.accepted, fan.count)

\* The window has wrapped around and a request has returned its two events.
C37_Witness ==
    /\ Len(fan.accepted) = 3 /\ fan.bufSize = 2 /\ fan.head = 1
    /\ fan.resp.asked /\ fan.resp.filter = EmptyFilter
    /\ fan.resp.Events = LastN(fan.accepted, 2)

\* C38: no send and no second close on a closed channel, an Unsubscribe of
\* an id that is not in the map changes nothing, and the channels in the
\* map are open and distinct per id.
C38_SubscriptionsAreSafe ==
    /\ [](/\ fan.panics = {}
          /\ \A id \in fan.subs : fan.chans[id].state = "open" /\ id < fan.nextSub
          /\ fan.pc = "send" => fan.chans[fan.cur].state = "open")
    /\ [][fan'.noops # fan.noops =>
            /\ fan'.subs = fan.subs /\ fan'.chans = fan.chans
            /\ fan'.nextSub = fan.nextSub]_vars

\* The consumer is about to send to one subscriber while another has
\* unsubscribed and an Unsubscribe of a removed id has done nothing.
C38_Witness ==
    /\ fan.pc = "send" /\ fan.noops > 0
    /\ \E id \in SubIDs : fan.chans[id].state = "closed"

\* C39: once the fan-out of an event is over, the consumer is back at its
\* read, the event is in the circular buffer, every subscriber of the map
\* was visited, and among them exactly those whose channel had room got it.
C39_FullSubscriberOnlyLosesItsOwn ==
    (fan.pc = "read" /\ fan.accepted # <<>>) =>
        /\ fan.buffer[(fan.head + fan.bufSize - 1) % fan.bufSize] = fan.evt
        /\ fan.atLock \subseteq fan.visited
        /\ \A id \in fan.visited :
              (id \in fan.roomy) <=> fan.chans[id].got

\* An event found one channel full and the other with room.
C39_Witness ==
    /\ fan.pc = "read" /\ fan.visited = SubIDs
    /\ \E id \in SubIDs : id \in fan.roomy
    /\ \E id \in SubIDs : id \notin fan.roomy

-----------------------------------------------------------------------------
(* Specifications. *)

InitPath ==
    /\ PathInit /\ WriterIdle /\ CgIdle /\ ResolverIdle /\ KernelIdle
    /\ CollectorIdle /\ RingIdle /\ FilterIdle /\ ConfigIdle /\ BootIdle
    /\ ShutdownIdle /\ EnrichIdle /\ HttpIdle /\ WalkIdle /\ LockIdle
    /\ FanIdle
NextPath == BuildPath
SpecPath == InitPath /\ [][NextPath]_vars

\* The writer on a filesystem that does not fail.
InitWriter ==
    /\ WriterInit /\ PathIdle /\ CgIdle /\ ResolverIdle /\ KernelIdle
    /\ CollectorIdle /\ RingIdle /\ FilterIdle /\ ConfigIdle /\ BootIdle
    /\ ShutdownIdle /\ EnrichIdle /\ HttpIdle /\ WalkIdle /\ LockIdle
    /\ FanIdle
NextWriter == ConsumerWrites \/ FlusherTicks
SpecWriter == InitWriter /\ [][NextWriter]_vars

\* The writer on a filesystem where single steps may fail.
NextWriterFaulty == ConsumerWritesFaulty \/ FlusherTicksFaulty
SpecWriterFaulty == InitWriter /\ [][NextWriterFaulty]_vars

\* The two forms of a pod's cgroup path, parsed.
InitCgroup ==
    /\ CgInit /\ PathIdle /\ WriterIdle /\ ResolverIdle /\ KernelIdle
    /\ CollectorIdle /\ RingIdle /\ FilterIdle /\ ConfigIdle /\ BootIdle
    /\ ShutdownIdle /\ EnrichIdle /\ HttpIdle /\ WalkIdle /\ LockIdle
    /\ FanIdle
NextCgroup == ParseSystemdPath \/ ParseCgroupfsPath
SpecCgroup == InitCgroup /\ [][NextCgroup]_vars

\* The resolver: one refresher and concurrent Resolve calls, on a node whose
\* processes come, go and change cgroup freely.
InitResolver ==
    /\ ResolverInit /\ PathIdle /\ WriterIdle /\ CgIdle /\ KernelIdle
    /\ CollectorIdle /\ RingIdle /\ FilterIdle /\ ConfigIdle /\ BootIdle
    /\ ShutdownIdle /\ EnrichIdle /\ HttpIdle /\ WalkIdle /\ LockIdle
    /\ FanIdle
NextResolver ==
    \/ RefreshBegin \/ RefreshReadDirFails \/ RefreshScanEntry
    \/ RefreshLock \/ RefreshPublish
    \/ ResolveRLock \/ ResolveRead \/ ResolveReturn
SpecResolver == InitResolver /\ [][NextResolver]_vars

\* The counting probes on several CPUs, and the poller.
InitCounters ==
    /\ KernelInit /\ PollerInit /\ ScrapeIdle /\ CountingLinks
    /\ ResolverIdle /\ PathIdle /\ WriterIdle /\ CgIdle /\ FilterIdle
    /\ ConfigIdle /\ BootIdle /\ ShutdownIdle /\ EnrichIdle /\ HttpIdle
    /\ WalkIdle /\ LockIdle /\ FanIdle
NextCounters ==
    \/ KprobeFires \/ StatsLookup \/ StatsCreate
    \/ trace_d_alloc \/ trace_d_instantiate \/ trace_shrink_dcache
    \/ PollBegin \/ PollNext \/ PollStore
SpecCounters == InitCounters /\ [][NextCounters]_vars

\* Scrapes, while polls end and the resolver refreshes.
InitScrape ==
    /\ ScrapeInit /\ PollerIdle /\ ResolverLive /\ KernelIdle /\ RingIdle
    /\ PathIdle /\ WriterIdle /\ CgIdle /\ FilterIdle /\ ConfigIdle
    /\ BootIdle /\ ShutdownIdle /\ EnrichIdle /\ HttpIdle /\ WalkIdle
    /\ LockIdle /\ FanIdle
NextScrape ==
    \/ CollectBegin \/ CollectEntry \/ CollectEnd
    \/ PollPublishes \/ ResolverRefreshes
SpecScrape == InitScrape /\ [][NextScrape]_vars

InitRing ==
    /\ KernelInit /\ RingInit /\ CollectorIdle /\ ResolverIdle /\ PathIdle
    /\ WriterIdle /\ CgIdle /\ FilterIdle /\ ConfigIdle /\ BootIdle
    /\ ShutdownIdle /\ EnrichIdle /\ HttpIdle /\ WalkIdle /\ LockIdle
    /\ FanIdle

NextRing ==
    \/ KprobeFires \/ StatsLookup \/ StatsCreate \/ trace_d_alloc \/ trace_d_instantiate
    \/ trace_d_alloc_path \/ trace_d_alloc_path_submit \/ ConsumerReads

SpecRing == InitRing /\ [][NextRing]_vars

InitFilter ==
    /\ FilterInit /\ KernelIdle /\ RingIdle /\ CollectorIdle /\ ResolverIdle
    /\ PathIdle /\ WriterIdle /\ CgIdle /\ ConfigIdle /\ BootIdle
    /\ ShutdownIdle /\ EnrichIdle /\ HttpIdle /\ WalkIdle /\ LockIdle
    /\ FanIdle

NextFilter == FilterDrops \/ FilterPasses

SpecFilter == InitFilter /\ [][NextFilter]_vars

InitConfig ==
    /\ ConfigInit /\ KernelIdle /\ CollectorIdle /\ FilterIdle
    /\ ResolverIdle /\ PathIdle /\ WriterIdle /\ CgIdle /\ BootIdle
    /\ ShutdownIdle /\ EnrichIdle /\ HttpIdle /\ WalkIdle /\ LockIdle
    /\ FanIdle

NextConfig == SetConfigBegin \/ SetConfigUpdate \/ SetConfigStore

SpecConfig == InitConfig /\ [][NextConfig]_vars

InitStartup ==
    /\ KernelInit /\ BootInit /\ CollectorIdle /\ FilterIdle /\ ConfigIdle
    /\ ResolverIdle /\ PathIdle /\ WriterIdle /\ CgIdle /\ ShutdownIdle
    /\ EnrichIdle /\ HttpIdle /\ WalkIdle /\ LockIdle /\ FanIdle

NextStartup ==
    \/ MainLoads \/ MainAttaches \/ MainCreatesWriter \/ MainCreatesConsumer
    \/ ListenAndServeFails \/ ConsumerReadsWhileServing
    \/ KprobeFires \/ StatsLookup \/ StatsCreate \/ trace_d_alloc \/ trace_d_instantiate
    \/ trace_shrink_dcache \/ trace_d_alloc_path \/ trace_d_alloc_path_submit

SpecStartup == InitStartup /\ [][NextStartup]_vars

InitShutdown ==
    /\ ShutdownInit /\ KernelIdle /\ RingIdle /\ CollectorIdle /\ FilterIdle
    /\ ConfigIdle /\ BootIdle /\ ResolverIdle /\ PathIdle /\ WriterIdle
    /\ CgIdle /\ EnrichIdle /\ HttpIdle /\ WalkIdle /\ LockIdle /\ FanIdle

NextShutdown ==
    \/ MainReceivesSignal \/ MainClosesStop \/ MainClosesConsumer
    \/ MainClosesServer \/ MainDefers \/ MainReturns
    \/ PollerTicks \/ PollerPolled \/ PollerStops
    \/ RefresherTicks \/ RefresherRefreshed \/ RefresherStops
    \/ FlusherWakes \/ FlusherFlushes \/ FlusherStops
    \/ CloserCloses
    \/ ConsumerReadsRecord \/ ConsumerHandsOver \/ ConsumerReadClosed
    \/ ConsumerReadFails

SpecShutdown == InitShutdown /\ [][NextShutdown]_vars

\* The Go scheduler runs every goroutine that can run.  A select takes each
\* ready case with equal chance, so a worker that keeps coming back to its
\* select with the stop channel closed takes the stop case in the end; main
\* goes through its shutdown sequence, and no assumption is made that it
\* returns.
FairShutdown ==
    /\ WF_vars(MainClosesStop) /\ WF_vars(MainClosesConsumer)
    /\ WF_vars(MainClosesServer) /\ WF_vars(MainDefers)
    /\ WF_vars(PollerPolled) /\ SF_vars(PollerStops)
    /\ WF_vars(RefresherRefreshed) /\ SF_vars(RefresherStops)
    /\ WF_vars(FlusherFlushes) /\ SF_vars(FlusherStops)
    /\ WF_vars(CloserCloses)
    /\ WF_vars(ConsumerHandsOver) /\ WF_vars(ConsumerReadClosed)

SpecShutdownFair == SpecShutdown /\ FairShutdown

InitEnrich ==
    /\ EnrichInit /\ KernelIdle /\ RingIdle /\ CollectorIdle /\ FilterIdle
    /\ ConfigIdle /\ BootIdle /\ ShutdownIdle /\ ResolverIdle /\ PathIdle
    /\ WriterIdle /\ CgIdle /\ HttpIdle /\ WalkIdle /\ LockIdle /\ FanIdle

NextEnrich == RefreshCaches \/ ConsumerEnriches

SpecEnrich == InitEnrich /\ [][NextEnrich]_vars

InitHttp ==
    /\ ConfigInit /\ HttpInit /\ KernelIdle /\ CollectorIdle /\ FilterIdle
    /\ BootIdle /\ ShutdownIdle /\ ResolverIdle /\ PathIdle /\ WriterIdle
    /\ CgIdle /\ EnrichIdle /\ WalkIdle /\ LockIdle /\ FanIdle

NextHttp == handleTraces \/ handleConfig

SpecHttp == InitHttp /\ [][NextHttp]_vars

InitWalk ==
    /\ WalkInit /\ KernelIdle /\ RingIdle /\ CollectorIdle /\ FilterIdle
    /\ ConfigIdle /\ BootIdle /\ ShutdownIdle /\ ResolverIdle /\ PathIdle
    /\ WriterIdle /\ CgIdle /\ EnrichIdle /\ HttpIdle /\ LockIdle /\ FanIdle

NextWalk == trace_d_alloc_walk \/ ConsumerBuildsPath

SpecWalk == InitWalk /\ [][NextWalk]_vars

\* The counting probes on their own, on an empty and on a full map.
InitProbes ==
    /\ KernelInit /\ CountingLinks /\ CollectorIdle /\ FilterIdle
    /\ ConfigIdle /\ ResolverIdle /\ PathIdle /\ WriterIdle /\ CgIdle
    /\ BootIdle /\ ShutdownIdle /\ EnrichIdle /\ HttpIdle /\ WalkIdle
    /\ LockIdle /\ FanIdle

NextProbes ==
    \/ KprobeFires \/ StatsLookup \/ StatsCreate
    \/ trace_d_alloc \/ trace_d_instantiate \/ trace_shrink_dcache

SpecProbes == InitProbes /\ [][NextProbes]_vars

\* The shutdown with a flush ticker that keeps ticking: the flusher takes
\* its tick case again and again while it runs.
SpecShutdownTicking == SpecShutdownFair /\ WF_vars(FlusherWakes)

InitLocked ==
    /\ WriterInit /\ LockInit /\ PathIdle /\ CgIdle /\ ResolverIdle
    /\ KernelIdle /\ CollectorIdle /\ RingIdle /\ FilterIdle /\ ConfigIdle
    /\ BootIdle /\ ShutdownIdle /\ EnrichIdle /\ HttpIdle /\ WalkIdle
    /\ FanIdle
NextLocked ==
    \/ WriteEventLocks \/ WriteEventBuffers \/ RotateCloses \/ RotateReopens
    \/ FlushLocks \/ FlushWrites
SpecLocked == InitLocked /\ [][NextLocked]_vars
InitWalkNull ==
    /\ WalkNullInit /\ KernelIdle /\ RingIdle /\ CollectorIdle /\ FilterIdle
    /\ ConfigIdle /\ BootIdle /\ ShutdownIdle /\ ResolverIdle /\ PathIdle
    /\ WriterIdle /\ CgIdle /\ EnrichIdle /\ HttpIdle /\ LockIdle /\ FanIdle

NextWalkNull == trace_d_alloc_walk \/ ConsumerBuildsPath

SpecWalkNull == InitWalkNull /\ [][NextWalkNull]_vars

InitDecode ==
    /\ WalkNullInit /\ KernelIdle /\ RingIdle /\ CollectorIdle /\ FilterIdle
    /\ ConfigIdle /\ BootIdle /\ ShutdownIdle /\ ResolverIdle /\ PathIdle
    /\ WriterIdle /\ CgIdle /\ EnrichIdle /\ HttpIdle /\ LockIdle /\ FanIdle

NextDecode == trace_d_alloc_walk \/ ConsumerDecodes

SpecDecode == InitDecode /\ [][NextDecode]_vars

InitWindow ==
    /\ FanInit /\ WalkIdle /\ KernelIdle /\ RingIdle /\ CollectorIdle /\ FilterIdle
    /\ ConfigIdle /\ BootIdle /\ ShutdownIdle /\ ResolverIdle /\ PathIdle
    /\ WriterIdle /\ CgIdle /\ EnrichIdle /\ HttpIdle /\ LockIdle

\* The window and its readers, without subscribers.
NextWindow ==
    \/ ConsumerDropsRecord \/ ConsumerStores \/ HandlerGetsEvents
    \/ FanOutLocks \/ FanOutUnlocks

SpecWindow == InitWindow /\ [][NextWindow]_vars

\* The consumer and the subscribers of the stream.
NextFanout ==
    \/ ConsumerStores \/ FanOutLocks \/ FanOutPicks \/ FanOutSends
    \/ FanOutUnlocks \/ Subscribe \/ Unsubscribe \/ StreamReceives

InitStream ==
    /\ StreamInit /\ WalkIdle /\ KernelIdle /\ RingIdle /\ CollectorIdle /\ FilterIdle
    /\ ConfigIdle /\ BootIdle /\ ShutdownIdle /\ ResolverIdle /\ PathIdle
    /\ WriterIdle /\ CgIdle /\ EnrichIdle /\ HttpIdle /\ LockIdle

SpecFanout == InitStream /\ [][NextFanout]_vars

InitSharedConfig ==
    /\ SharedConfigInit /\ KernelIdle /\ CollectorIdle /\ FilterIdle
    /\ ResolverIdle /\ PathIdle /\ WriterIdle /\ CgIdle /\ BootIdle
    /\ ShutdownIdle /\ EnrichIdle /\ HttpIdle /\ WalkIdle /\ LockIdle
    /\ FanIdle

NextSharedConfig ==
    HandlerSetConfigBegin \/ HandlerSetConfigUpdate \/ HandlerSetConfigStore

SpecSharedConfig == InitSharedConfig /\ [][NextSharedConfig]_vars
=============================================================================
